---- MODULE Spec2Model ----
(***************************************************************************)
(* Model of the command-sequence builder of qeg_nmr_qua: the add_pulse,    *)
(* add_delay and add_align methods of Experiment (inherited by             *)
(* Experiment2D, experiment/experiment.py) and of Experiment1D             *)
(* (experiment/experiment_1d.py), and the sweep-consistency check          *)
(* Experiment.update_loop; the constructor; and the lowering of the        *)
(* command list to a QUA program (create_experiment with the macros of     *)
(* experiment/macros.py), together with the order and the timing in which  *)
(* the statements of a lowered program run.  Beside the experiment        *)
(* objects it models an ExperimentSettings object (config/settings.py), a  *)
(* DataSaver with its root folder (analysis/data_saver.py) and an          *)
(* OPXConfig with its dictionary and json forms (config/config.py and the  *)
(* classes of its parts).                                                  *)
(*                                                                         *)
(* Numbers.  Python/numpy reals are modelled as exact rationals n/d.  The  *)
(* input sets below hold small integers, phases that are multiples of 45   *)
(* degrees and integer nanoseconds, so every value the code computes from  *)
(* them (k/4, small integer dot products, ratios 1, 2, 1/2, ...) is exact  *)
(* in binary floating point as well: on these inputs the exact arithmetic  *)
(* of the model and the float64 arithmetic of numpy agree.                 *)
(*                                                                         *)
(* Values.  A Python value held in a command or passed as an argument is   *)
(* a record [k, n, d, v]:                                                  *)
(*   k = "absent"  the dictionary key is not set                           *)
(*   k = "none"    None                                                    *)
(*   k = "num"     the scalar n/d (d > 0, lowest terms)                    *)
(*   k = "vec"     the numpy array whose i-th entry is v[i]/d              *)
(***************************************************************************)
EXTENDS Integers, Sequences, FiniteSets, TLC

\* cls        the class of the experiment object
\* commands   self._commands
\* var_vec    self.var_vec (NoneV on an Experiment1D, which has no such
\*            attribute)
\* use_fixed  self.use_fixed
\* last       the most recent call and its outcome
\* live       an experiment object exists (its __init__ has returned)
\* settings   the ExperimentSettings object handed to the constructor
\* attrs      the attributes __init__ computes from the settings
\* start_with_wait  self.start_with_wait
\* low        the outcome of the most recent create_experiment
\* run        the execution of the program create_experiment returned
\* es         the ExperimentSettings object, its callbacks and the most
\*            recent call on it
\* saver      the DataSaver: the folders under its root and the most recent
\*            call
\* opx        the OPXConfig object and the most recent call on it
VARIABLES cls, commands, var_vec, use_fixed, last,
          live, settings, attrs, start_with_wait, low, lowered, run,
          es, saver, opx

lowvars == <<live, settings, attrs, start_with_wait, low, lowered, run>>

\* the variables of the experiment objects, and those of the other objects
expvars == <<cls, commands, var_vec, use_fixed, last,
             live, settings, attrs, start_with_wait, low, lowered, run>>

othervars == <<es, saver, opx>>

vars == <<expvars, othervars>>

\* ---------------------------------------------------------------- bounds
\* longest command list the model builds
MaxCmds == 2
\* length of the vectors handed directly to update_loop
VecLen == 2

\* ---------------------------------------------------------------- values
Abs(x) == IF x < 0 THEN 0 - x ELSE x

RECURSIVE Gcd(_, _)
Gcd(a, b) == IF b = 0 THEN Abs(a) ELSE Gcd(b, a % Abs(b))

RECURSIVE GcdSeq(_, _)
GcdSeq(s, g) == IF s = <<>> THEN g ELSE GcdSeq(Tail(s), Gcd(g, Head(s)))

Absent == [k |-> "absent", n |-> 0, d |-> 1, v |-> <<>>]
NoneV == [k |-> "none", n |-> 0, d |-> 1, v |-> <<>>]

\* the scalar n/d, d # 0, in lowest terms with a positive denominator
Num(n, d) ==
    LET s == IF d < 0 THEN 0 - 1 ELSE 1
        g == Gcd(n, d)
    IN [k |-> "num", n |-> (s * n) \div g, d |-> (s * d) \div g, v |-> <<>>]

\* the array with entries nums[i]/den, den > 0, over the least denominator
Vec(nums, den) ==
    LET g == GcdSeq(nums, den)
    IN [k |-> "vec", n |-> 0, d |-> den \div g,
        v |-> [i \in 1..Len(nums) |-> nums[i] \div g]]

\* isinstance(x, Iterable) for the argument values of the model
IsIterable(x) == x.k = "vec"

\* x // 4 on an int and on an integer numpy array (floor division)
FloorDiv4(x) ==
    IF x.k = "vec"
    THEN Vec([i \in 1..Len(x.v) |-> x.v[i] \div 4], 1)
    ELSE Num(x.n \div 4, 1)

\* (x / 360) % 1 on a scalar and on a numpy array of whole degrees
PhaseTurns(x) ==
    IF x.k = "vec"
    THEN Vec([i \in 1..Len(x.v) |-> x.v[i] % 360], 360)
    ELSE Num(x.n % 360, 360)

\* ------------------------------------------------------ the configuration
\* cfg_from_settings: the four elements and their operation tables
AnalogOperations ==
    {"cw", "excitation", "readout", "no_pulse_readout", "pi", "pi_half",
     "gaussian_pi_half"}

DigitalOperations == {"voltage_on", "voltage_off"}

ConfigElements == {"resonator", "helper", "amplifier", "switch"}

Operations(el) ==
    IF el \in {"resonator", "helper"} THEN AnalogOperations
    ELSE IF el \in {"amplifier", "switch"} THEN DigitalOperations
    ELSE {}

\* ------------------------------------------------------------ update_loop
RECURSIVE SumTo(_, _, _)
SumTo(a, b, i) == IF i = 0 THEN 0 ELSE a[i] * b[i] + SumTo(a, b, i - 1)

\* np.dot of two arrays of the same length, in units of 1/(a.d * b.d)
Dot(a, b) == SumTo(a.v, b.v, Len(a.v))

\* (faulty variant: the all-zero check left out)
AllZeroUnchecked(c) == FALSE

\* np.all(var_vec == 0)
AllZero(c) == \A i \in 1..Len(c.v) : c.v[i] = 0

\* (faulty variant: the candidate's own norm on both sides of the right-hand product)
CollinearOwnNorm(c, two) == Dot(c, two) * Dot(two, c) = Dot(c, c) * Dot(c, c)

\* np.dot(var_vec, two) * np.dot(two, var_vec)
\*     == np.dot(var_vec, var_vec) * np.dot(two, two);
\* both sides are in units of 1/(c.d * two.d)^2
Collinear(c, two) == Dot(c, two) * Dot(two, c) = Dot(c, c) * Dot(two, two)

\* (faulty variant: an accepted candidate replaces the stored vector)
ReturnDivAndStore(vv, c, div) ==
    [exc |-> "ok", msg |-> "", ret |-> div, var_vec |-> c]

\* `if div > 0: return div` taken: the stored vector stays as it is
ReturnDiv(vv, c, div) ==
    [exc |-> "ok", msg |-> "", ret |-> div, var_vec |-> vv]

\* the while loop of update_loop from index idx (1-based) on: the value of
\* div when the loop ends, or the IndexError of reading past the end
RECURSIVE ScanDiv(_, _, _)
ScanDiv(two, c, idx) ==
    IF idx > Len(c.v) THEN [exc |-> "IndexError", div |-> NoneV]
    ELSE IF c.v[idx] = 0 THEN ScanDiv(two, c, idx + 1)
    ELSE LET div == Num(two.v[idx] * c.d, c.v[idx] * two.d)
         IN IF div.n < 0 THEN ScanDiv(two, c, idx + 1)
            ELSE [exc |-> "ok", div |-> div]

AllZeroMsg == "Variable vector cannot be all zeros."
InconsistentMsg == "Inconsistent loop variables."
ShapesMsg == "shapes not aligned"

\* update_loop(c) on an experiment whose var_vec is vv: the exception raised
\* ("ok" when it returns), the value returned and var_vec afterwards
UpdateLoop(vv, c) ==
    IF AllZero(c)
    THEN [exc |-> "ValueError", msg |-> AllZeroMsg, ret |-> NoneV, var_vec |-> vv]
    ELSE IF vv = NoneV
    THEN [exc |-> "ok", msg |-> "", ret |-> Num(1, 1), var_vec |-> c]
    ELSE IF Len(c.v) # Len(vv.v)
    THEN [exc |-> "ValueError", msg |-> ShapesMsg, ret |-> NoneV, var_vec |-> vv]
    ELSE IF Collinear(c, vv)
    THEN LET s == ScanDiv(vv, c, 1)
         IN IF s.exc # "ok"
            THEN [exc |-> s.exc, msg |-> "", ret |-> NoneV, var_vec |-> vv]
            ELSE IF s.div.n > 0
            THEN ReturnDiv(vv, c, s.div)
            ELSE [exc |-> "ValueError", msg |-> InconsistentMsg,
                  ret |-> NoneV, var_vec |-> vv]
    ELSE [exc |-> "ValueError", msg |-> InconsistentMsg, ret |-> NoneV,
          var_vec |-> vv]

\* ------------------------------------------------------------- commands
\* a command dictionary; a key the code did not set holds Absent
Command(type, name, element, phase, amplitude, length, duration, elements) ==
    [type |-> type, name |-> name, element |-> element, phase |-> phase,
     amplitude |-> amplitude, length |-> length, duration |-> duration,
     elements |-> elements]

\* the list of element names given to add_align
List(els) == [k |-> "list", n |-> 0, d |-> 1, v |-> els]

\* the outcome of one call: the exception raised ("ok" when none), the
\* candidate handed to update_loop (NoneV when it was not called), the value
\* update_loop returned, and the three attributes after the call
Outcome(exc, msg, cand, ret, cmds, vv, uf) ==
    [exc |-> exc, msg |-> msg, cand |-> cand, ret |-> ret, commands |-> cmds,
     var_vec |-> vv, use_fixed |-> uf]

\* length // 4 if length is not None else None
LengthCycles(length) == IF length = NoneV THEN NoneV ELSE FloorDiv4(length)

\* (faulty variant: use_fixed assigned before update_loop is called)
RegisterAndAppendFlagFirst(cmds, vv, uf, cmd, cand, fixed) ==
    LET r == UpdateLoop(vv, cand)
    IN IF r.exc # "ok"
       THEN Outcome(r.exc, r.msg, cand, NoneV, cmds, r.var_vec, fixed)
       ELSE Outcome("ok", "", cand, r.ret, Append(cmds, cmd), r.var_vec, fixed)

\* the tail of the three sweeping branches of add_pulse and of add_delay:
\* update_loop(cand), then the use_fixed assignment, then the append
RegisterAndAppend(cmds, vv, uf, cmd, cand, fixed) ==
    LET r == UpdateLoop(vv, cand)
    IN IF r.exc # "ok"
       THEN Outcome(r.exc, r.msg, cand, NoneV, cmds, r.var_vec, uf)
       ELSE Outcome("ok", "", cand, r.ret, Append(cmds, cmd), r.var_vec, fixed)

\* Experiment.add_pulse(name, element, phase, amplitude, length)
AddPulse(cmds, vv, uf, name, element, phase, amplitude, length) ==
    IF element \notin ConfigElements
    THEN Outcome("ValueError", "Element not defined in config.", NoneV, NoneV,
                 cmds, vv, uf)
    ELSE IF name \notin Operations(element)
    THEN Outcome("ValueError", "Operation not defined for element.", NoneV,
                 NoneV, cmds, vv, uf)
    ELSE IF IsIterable(phase)
    THEN RegisterAndAppend(cmds, vv, uf,
             Command("pulse", name, element, Absent, amplitude,
                     LengthCycles(length), Absent, Absent),
             PhaseTurns(phase), TRUE)
    ELSE IF IsIterable(amplitude)
    THEN RegisterAndAppend(cmds, vv, uf,
             Command("pulse", name, element, PhaseTurns(phase), Absent,
                     LengthCycles(length), Absent, Absent),
             amplitude, TRUE)
    ELSE IF IsIterable(length)
    THEN RegisterAndAppend(cmds, vv, uf,
             Command("pulse", name, element, PhaseTurns(phase), amplitude,
                     Absent, Absent, Absent),
             FloorDiv4(length), FALSE)
    ELSE Outcome("ok", "", NoneV, NoneV,
             Append(cmds, Command("pulse", name, element, PhaseTurns(phase),
                                  amplitude, LengthCycles(length), Absent,
                                  Absent)),
             vv, uf)

\* (faulty variant: the command is put at the front of the list)
AddDelayPrepend(cmds, vv, uf, duration) ==
    IF IsIterable(duration)
    THEN RegisterAndAppend(cmds, vv, uf,
             Command("delay", "", "", Absent, Absent, Absent, Absent, Absent),
             FloorDiv4(duration), FALSE)
    ELSE Outcome("ok", "", NoneV, NoneV,
             <<Command("delay", "", "", Absent, Absent, Absent,
                       FloorDiv4(duration), Absent)>> \o cmds,
             vv, uf)

\* Experiment.add_delay(duration)
AddDelay(cmds, vv, uf, duration) ==
    IF IsIterable(duration)
    THEN RegisterAndAppend(cmds, vv, uf,
             Command("delay", "", "", Absent, Absent, Absent, Absent, Absent),
             FloorDiv4(duration), FALSE)
    ELSE Outcome("ok", "", NoneV, NoneV,
             Append(cmds, Command("delay", "", "", Absent, Absent, Absent,
                                  FloorDiv4(duration), Absent)),
             vv, uf)

\* `el not in self.config.elements`: config.elements is an ElementConfig, a
\* dataclass with no __contains__, __iter__ or __getitem__, so the membership
\* test raises TypeError whatever el is
ElementConfigContains(el) == "TypeError"

\* Experiment.add_align(elements)
AddAlign(cmds, vv, uf, elements) ==
    IF elements # NoneV /\ Len(elements.v) > 0
    THEN LET t == ElementConfigContains(elements.v[1])
         IN IF t = "TypeError"
            THEN Outcome("TypeError",
                         "argument of type 'ElementConfig' is not iterable",
                         NoneV, NoneV, cmds, vv, uf)
            ELSE Outcome("ValueError", "Element not defined in config.", NoneV,
                         NoneV, cmds, vv, uf)
    ELSE Outcome("ok", "", NoneV, NoneV,
             Append(cmds, Command("align", "", "", Absent, Absent, Absent,
                                  Absent, elements)),
             vv, uf)

\* Experiment1D.add_pulse: `element not in self.config.elements` is the first
\* statement, so the call ends in the TypeError of the membership test
AddPulse1D(cmds, vv, uf, name, element, phase, amplitude, length) ==
    LET t == ElementConfigContains(element)
    IN IF t = "TypeError"
       THEN Outcome("TypeError",
                    "argument of type 'ElementConfig' is not iterable",
                    NoneV, NoneV, cmds, vv, uf)
       ELSE Outcome("ValueError", "Element not defined in config.", NoneV,
                    NoneV, cmds, vv, uf)

\* Experiment1D.add_delay(duration): duration // 4 is stored whatever it is
AddDelay1D(cmds, vv, uf, duration) ==
    Outcome("ok", "", NoneV, NoneV,
        Append(cmds, Command("delay", "", "", Absent, Absent, Absent,
                             FloorDiv4(duration), Absent)),
        vv, uf)

\* ------------------------------------------------------------- the calls
\* the most recent call: its arguments (Absent for a parameter the operation
\* does not have) and its outcome
Call(op, name, element, phase, amplitude, length, duration, elements, o) ==
    [op |-> op, name |-> name, element |-> element, phase |-> phase,
     amplitude |-> amplitude, length |-> length, duration |-> duration,
     elements |-> elements, exc |-> o.exc, msg |-> o.msg, cand |-> o.cand,
     ret |-> o.ret]

NoCall ==
    Call("init", "", "", Absent, Absent, Absent, Absent, Absent,
         Outcome("ok", "", NoneV, NoneV, <<>>, NoneV, FALSE))

\* a scalar argument and a numpy-array argument
Scalar(x) == Num(x, 1)
Array(t) == [k |-> "vec", n |-> 0, d |-> 1, v |-> t]

\* (operation name, element) pairs: two defined in the configuration, one
\* with an operation the element lacks, one with an unknown element
PulseTargets ==
    {<<"pi_half", "resonator">>, <<"voltage_on", "switch">>,
     <<"pi_half", "switch">>, <<"pi_half", "coil">>}

ValidTargets == {t \in PulseTargets : t[2] \in ConfigElements /\ t[1] \in Operations(t[2])}

\* scalar arguments: a phase in degrees, an amplitude, a length in ns
ScalarPhases == {Scalar(90)}
ScalarAmps == {Scalar(1)}
ScalarLens == {NoneV}
\* scalar delay durations in ns
ScalarDurations == {Scalar(8), Scalar(64)}

\* swept arguments: phases in degrees, amplitudes, lengths/durations in ns
PhaseVecs == {Array(t) : t \in {<<45, 90>>, <<90, 180>>, <<180, 360>>, <<360, 720>>}}
AmpVecs == {Array(t) : t \in {<<1, 2>>, <<2, 4>>, <<-1, -2>>, <<0, 2>>, <<0, 0>>}}
NsVecs == {Array(t) : t \in {<<4, 6>>, <<8, 12>>, <<4, 8>>, <<5, 9>>, <<2, 2>>}}

\* the (phase, amplitude, length) triples of the add_pulse calls: at most
\* one vector, and two calls that give two vectors at once
PulseArgs ==
    (PhaseVecs \X ScalarAmps \X ScalarLens)
    \cup (ScalarPhases \X AmpVecs \X ScalarLens)
    \cup (ScalarPhases \X ScalarAmps \X NsVecs)
    \cup (ScalarPhases \X ScalarAmps \X (ScalarLens \cup {Scalar(10)}))
    \cup {<<Array(<<90, 180>>), Array(<<2, 1>>), NoneV>>,
          <<Scalar(90), Array(<<1, 2>>), Array(<<4, 6>>)>>}

\* the add_pulse calls: every triple on the defined targets, and a scalar and
\* a swept call on the undefined ones
PulseCalls ==
    (ValidTargets \X PulseArgs)
    \cup ((PulseTargets \ ValidTargets)
          \X {<<Scalar(90), Scalar(1), NoneV>>,
              <<Scalar(90), Array(<<1, 2>>), NoneV>>})

\* add_align arguments: None, the empty list, defined and undefined names
AlignArgs ==
    {NoneV, List(<<>>), List(<<"resonator", "helper">>), List(<<"coil">>)}

\* the vectors handed directly to update_loop: every vector of VecLen
\* entries over LoopVals
LoopVals == {-2, -1, 0, 1, 2}
LoopVecs == {Array(t) : t \in [1..VecLen -> LoopVals]}

Classes == {"Experiment2D", "Experiment1D"}

\* ------------------------------------------------- settings, constructor
\* clock cycles
RX_SWITCH_DELAY == 230
AMPLIFIER_UNBLANKING_TIME == 500
AMPLIFIER_BLANKING_TIME == 500

\* the element and operation names cfg_from_settings writes to the settings
probe_key == "resonator"
helper_key == "helper"
amplifier_key == "amplifier"
rx_switch_key == "switch"
pi_half_pulse == "pi_half"

\* an ExperimentSettings object: times in ns, frequencies in Hz, the pulse
\* amplitude in thousandths, the rotation angle in degrees
Settings(n_avg, readout_delay, dwell_time, readout_end) ==
    [n_avg |-> n_avg, pulse_length |-> 1100, pulse_amplitude |-> 250,
     rotation_angle |-> 450, thermal_reset |-> 400,
     center_freq |-> 282190100, offset_freq |-> 750,
     readout_delay |-> readout_delay, dwell_time |-> dwell_time,
     readout_start |-> 0, readout_end |-> readout_end]

\* ExperimentSettings.validate: the message of the ValueError it raises,
\* "" when it returns
Validate(s) ==
    IF s.n_avg < 1 THEN "n_avg must be an integer >= 1"
    ELSE IF s.pulse_length < 16 * 4 THEN "pulse length must be at least 64 ns"
    ELSE IF Abs(s.pulse_amplitude) > 500 THEN "pulse power max at 1 Vpp"
    ELSE IF s.readout_delay < 5 * 1000
    THEN "readout delay must be at least 5 us to protect from ringdown"
    ELSE IF \/ s.center_freq - s.offset_freq < 0
            \/ s.center_freq - s.offset_freq >= 750 * 1000000
    THEN "Frequency out of OPX range."
    ELSE ""

\* the settings.update(...) calls of cfg_from_settings: a copy is validated,
\* and the normalized rotation angle (the keys are the default ones) is
\* written back
CfgFromSettings(s) ==
    IF Validate(s) # ""
    THEN [exc |-> "ValueError", msg |-> Validate(s), settings |-> s]
    ELSE [exc |-> "ok", msg |-> "",
          settings |-> [s EXCEPT !.rotation_angle = s.rotation_angle % 360]]

\* self.pre_scan_delay
PreScanDelay(s) ==
    s.readout_delay \div 4 - 2 * AMPLIFIER_BLANKING_TIME - RX_SWITCH_DELAY

TooShortMsg == "Readout delay too short to accommodate switching times."

\* the attributes __init__ derives from the settings
Attrs(s) ==
    [n_avg |-> s.n_avg,
     pre_scan_delay |-> PreScanDelay(s),
     readout_len |-> s.dwell_time,
     measure_sequence_len |-> (s.readout_end - s.readout_start) \div s.dwell_time,
     loop_wait_cycles |-> s.dwell_time \div 4,
     wait_between_scans |-> s.thermal_reset \div 4]

NoAttrs ==
    [n_avg |-> 0, pre_scan_delay |-> 0, readout_len |-> 0,
     measure_sequence_len |-> 0, loop_wait_cycles |-> 0,
     wait_between_scans |-> 0]

\* (faulty variant: the bound of the constructor's check is exclusive)
PreScanTooShortInclusive(s) == PreScanDelay(s) =< 16

\* the check of the constructor on the pre-scan delay
PreScanTooShort(s) == PreScanDelay(s) < 16

\* Experiment.__init__ / Experiment1D.__init__ (through Experiment2D.__init__
\* for that class) on settings s, with a config object given or with
\* config = None
Construct(s, configGiven) ==
    LET c == IF configGiven
             THEN [exc |-> "ok", msg |-> "", settings |-> s]
             ELSE CfgFromSettings(s)
    IN IF c.exc # "ok"
       THEN [exc |-> c.exc, msg |-> c.msg, settings |-> c.settings,
             attrs |-> NoAttrs]
       ELSE IF PreScanTooShort(c.settings)
       THEN [exc |-> "ValueError", msg |-> TooShortMsg,
             settings |-> c.settings, attrs |-> NoAttrs]
       ELSE [exc |-> "ok", msg |-> "", settings |-> c.settings,
             attrs |-> Attrs(c.settings)]

\* the settings of the experiments of the builder specifications
BaseSettings == Settings(1, 20000, 64, 256)

\* no lowering yet, no program running
NoRead ==
    [commands |-> <<>>, var_vec |-> NoneV, start_with_wait |-> TRUE,
     attrs |-> NoAttrs]

NoLowered == [read |-> NoRead, again |-> FALSE]

NoLowering ==
    [exc |-> "", msg |-> "", emitted |-> <<>>, returned |-> FALSE]

\* the execution of a program: pc is the statement to run next (0 when no
\* program runs), loop the QUA loop variables, clock the time of each
\* element in cycles; sw and amp are the levels the sticky switch and
\* amplifier elements hold, set at swAt and ampAt; seqEndAt is the time the
\* drive and the commands of the current sweep point ended, waited the
\* cycles of the waits run since, probeWin and helperWin the <<start, end>>
\* of the measurements of the current sweep point, saved the number of
\* values each QUA variable has saved to its stream, and part the call that
\* emitted the statement run last
NoRun ==
    [pc |-> 0,
     loop |-> [x \in {"n", "var", "t1", "t2"} |-> 0],
     clock |-> [e \in {"resonator", "helper", "amplifier", "switch"} |-> 0],
     sw |-> "unknown", amp |-> "unknown", swAt |-> 0, ampAt |-> 0,
     seqEndAt |-> 0, waited |-> 0, probeWin |-> <<>>, helperWin |-> <<>>,
     saved |-> [x \in {"I1", "Q1", "I2", "Q2", "n"} |-> 0],
     part |-> ""]

\* ---------------------------------------------------- ExperimentSettings
\* An ExperimentSettings object: f holds the dataclass fields of Settings;
\* excitation_amp is declared in the class without an annotation, so it is a
\* class attribute and no dataclass field: to_dict, from_dict and the
\* constructor do not know it.
ClassExcitationAmp == 30

SettingsObject(f) == [f |-> f, excitation_amp |-> ClassExcitationAmp]

\* the default field values (the thermal reset as in Settings)
DefaultFields ==
    [Settings(4, 20000, 4000, 256000) EXCEPT !.rotation_angle = 90]

FieldNames == DOMAIN DefaultFields

\* names hasattr() finds on an ExperimentSettings object besides the
\* dataclass fields: the class attribute and the methods
MethodNames == {"validate", "update", "to_dict", "copy"}
HasAttr(name) == name \in FieldNames \cup {"excitation_amp"} \cup MethodNames

\* ExperimentSettings.validate on an object that passes its checks: the
\* rotation angle is normalized
Normalized360(f) == [f EXCEPT !.rotation_angle = f.rotation_angle % 360]

\* ExperimentSettings.from_dict(data) on a dictionary of the fields in data
\* (a function from field names to values); the other fields are defaults
from_dict(data) ==
    LET f == [n \in FieldNames |->
                IF n \in DOMAIN data THEN data[n] ELSE DefaultFields[n]]
    IN IF Validate(f) # ""
       THEN [exc |-> "ValueError", msg |-> Validate(f),
             obj |-> SettingsObject(f)]
       ELSE [exc |-> "ok", msg |-> "", obj |-> SettingsObject(Normalized360(f))]

\* ExperimentSettings.to_dict
to_dict(o) == o.f

\* the loop `for k, v in kwargs.items()` of update from the i-th keyword on:
\* t is the tentative object, shadowed the method names set so far
RECURSIVE SetAttrs(_, _, _, _)
SetAttrs(t, shadowed, kw, i) ==
    IF i > Len(kw) THEN [exc |-> "ok", msg |-> "", t |-> t, shadowed |-> shadowed]
    ELSE LET k == kw[i][1]
             v == kw[i][2]
         IN IF ~HasAttr(k)
            THEN [exc |-> "AttributeError", msg |-> "Unknown setting: " \o k,
                  t |-> t, shadowed |-> shadowed]
            ELSE IF k \in FieldNames
            THEN SetAttrs([t EXCEPT !.f[k] = v], shadowed, kw, i + 1)
            ELSE IF k = "excitation_amp"
            THEN SetAttrs([t EXCEPT !.excitation_amp = v], shadowed, kw, i + 1)
            ELSE SetAttrs(t, shadowed \cup {k}, kw, i + 1)

\* the fields of new that differ from those of old, with their new values
Changes(old, new) ==
    [n \in {m \in FieldNames : old[m] # new[m]} |-> new[n]]

NotCallableMsg == "'int' object is not callable"

\* ExperimentSettings.update(**kwargs) up to `if changes:`; kw is the
\* sequence of <<name, value>> keywords.  The outcome holds the object, the
\* returned dictionary and whether _notify_update is called.
update(o, kw) ==
    IF kw = <<>>
    THEN [exc |-> "ok", msg |-> "", obj |-> o, ret |-> <<>>, notify |-> FALSE]
    ELSE LET c == from_dict(to_dict(o))
         IN IF c.exc # "ok"
            THEN [exc |-> c.exc, msg |-> c.msg, obj |-> o, ret |-> <<>>,
                  notify |-> FALSE]
            ELSE LET a == SetAttrs(c.obj, {}, kw, 1)
                 IN IF a.exc # "ok"
                    THEN [exc |-> a.exc, msg |-> a.msg, obj |-> o, ret |-> <<>>,
                          notify |-> FALSE]
                    ELSE IF "validate" \in a.shadowed
                    THEN [exc |-> "TypeError", msg |-> NotCallableMsg, obj |-> o,
                          ret |-> <<>>, notify |-> FALSE]
                    ELSE IF Validate(a.t.f) # ""
                    THEN [exc |-> "ValueError", msg |-> Validate(a.t.f),
                          obj |-> o, ret |-> <<>>, notify |-> FALSE]
                    ELSE IF "to_dict" \in a.shadowed
                    THEN [exc |-> "TypeError", msg |-> NotCallableMsg, obj |-> o,
                          ret |-> <<>>, notify |-> FALSE]
                    ELSE LET new == Normalized360(a.t.f)
                             ch == Changes(o.f, new)
                         IN [exc |-> "ok", msg |-> "",
                             obj |-> [o EXCEPT !.f = new],
                             ret |-> ch, notify |-> DOMAIN ch # {}]

\* the callbacks: "plain" returns, "raiser" raises an Exception, "remover"
\* unregisters "plain" and returns
Callbacks == {"plain", "raiser", "remover"}

Remove(cbs, fn) == SelectSeq(cbs, LAMBDA c : c # fn)

\* (faulty variant: the first exception of a callback ends the notification
\* and reaches the caller)
RECURSIVE NotifyUnguarded(_, _, _, _)
NotifyUnguarded(copy, i, cbs, ran) ==
    IF i > Len(copy) THEN [exc |-> "ok", callbacks |-> cbs, ran |-> ran]
    ELSE IF copy[i] = "raiser"
    THEN [exc |-> "Exception", callbacks |-> cbs, ran |-> Append(ran, copy[i])]
    ELSE NotifyUnguarded(copy, i + 1,
                         IF copy[i] = "remover" THEN Remove(cbs, "plain") ELSE cbs,
                         Append(ran, copy[i]))

\* ExperimentSettings._notify_update from the i-th entry of its copy of the
\* callback list on: cbs is self._callbacks, ran the callbacks called so far
RECURSIVE Notify(_, _, _, _)
Notify(copy, i, cbs, ran) ==
    IF i > Len(copy) THEN [exc |-> "ok", callbacks |-> cbs, ran |-> ran]
    ELSE Notify(copy, i + 1,
                IF copy[i] = "remover" THEN Remove(cbs, "plain") ELSE cbs,
                Append(ran, copy[i]))

\* the most recent call on the settings object: its argument, its outcome,
\* the callbacks it ran, and the object and callback list it found
SettingsCall(op, arg, exc, msg, ret, ran, before, registered) ==
    [op |-> op, arg |-> arg, exc |-> exc, msg |-> msg, ret |-> ret,
     ran |-> ran, before |-> before, registered |-> registered]

\* no settings object
NoSettingsObject ==
    [live |-> FALSE, obj |-> SettingsObject(DefaultFields), callbacks |-> <<>>,
     call |-> SettingsCall("", <<>>, "", "", <<>>, <<>>,
                           SettingsObject(DefaultFields), <<>>)]

\* ------------------------------------------------------------- DataSaver
\* A folder name <prefix>_<digits> is the pair <<prefix, digits>>, digits a
\* sequence over 0..9.  The root data folder holds a set of such folders.
RECURSIVE DigitsOf(_)
DigitsOf(n) == IF n < 10 THEN <<n>> ELSE Append(DigitsOf(n \div 10), n % 10)

\* f"{n:0{width}d}"
Format(n, width) ==
    LET d == DigitsOf(n)
    IN IF Len(d) >= width THEN d ELSE [i \in 1..(width - Len(d)) |-> 0] \o d

\* int(digits)
RECURSIVE ToInt(_)
ToInt(d) ==
    IF Len(d) = 0 THEN 0 ELSE 10 * ToInt(SubSeq(d, 1, Len(d) - 1)) + d[Len(d)]

\* the zero-padding width of save_experiment
CounterWidth == 4

\* pattern.match(entry.name) for ^<prefix>_(\d{width})$
Matches(name, prefix, width) == name[1] = prefix /\ Len(name[2]) = width

\* DataSaver._next_experiment_name
next_experiment_name(dirs, prefix, width) ==
    LET idx == {ToInt(e[2]) : e \in {d \in dirs : Matches(d, prefix, width)}}
        max_idx == IF idx = {} THEN 0 ELSE CHOOSE x \in idx : \A y \in idx : y =< x
    IN <<prefix, Format(max_idx + 1, width)>>

\* DataSaver.save_experiment on the folders dirs; writable says whether the
\* files can be written (a failure removes the new folder again)
save_experiment(dirs, prefix, writable) ==
    IF prefix = ""
    THEN [exc |-> "ValueError", ret |-> <<"", <<>> >>, dirs |-> dirs]
    ELSE IF prefix \in {"a/b", "."}
    THEN [exc |-> "ValueError", ret |-> <<"", <<>> >>, dirs |-> dirs]
    ELSE LET name == next_experiment_name(dirs, prefix, CounterWidth)
         IN IF name \in dirs
            THEN [exc |-> "FileExistsError", ret |-> name, dirs |-> dirs]
            ELSE IF ~writable
            THEN [exc |-> "RuntimeError", ret |-> name, dirs |-> dirs]
            ELSE [exc |-> "ok", ret |-> name, dirs |-> dirs \cup {name}]

\* the root data folder, the number of saves made, and the most recent call
\* on the DataSaver
NoDataSaver ==
    [dirs |-> {}, saves |-> 0,
     call |-> [op |-> "", prefix |-> "", writable |-> TRUE, exc |-> "",
               ret |-> <<"", <<>> >>, before |-> {}]]

\* ------------------------------------------------------------- OPXConfig
\* Python dicts are functions from their keys; d.get(k, default)
EmptyDict == [k \in {} |-> 0]
Put(d, k, v) == [n \in DOMAIN d \cup {k} |-> IF n = k THEN v ELSE d[n]]
GetOr(d, k, default) == IF k \in DOMAIN d THEN d[k] ELSE default

\* an outcome of a constructor or classmethod: the exception and the object
Built(obj) == [exc |-> "ok", obj |-> obj]
Raised(exc) == [exc |-> exc, obj |-> EmptyDict]

\* ControlPulse(length, waveform, digital_marker): the dataclass has no
\* field named waveforms
ControlPulse(kw) ==
    IF ~(DOMAIN kw \subseteq {"length", "waveform", "digital_marker"})
    THEN Raised("TypeError")
    ELSE Built([class |-> "ControlPulse",
                length |-> GetOr(kw, "length", 0),
                waveform |-> GetOr(kw, "waveform", "zero_wf"),
                digital_marker |-> GetOr(kw, "digital_marker", "OFF")])

\* IntegrationWeightMapping()
IntegrationWeightMapping ==
    [cos |-> "cosine_weights", sin |-> "sine_weights",
     minus_sin |-> "minus_sine_weights",
     rotated_cos |-> "rotated_cosine_weights",
     rotated_sin |-> "rotated_sine_weights",
     rotated_minus_sin |-> "rotated_minus_sine_weights",
     opt_cos |-> "opt_cosine_weights", opt_sin |-> "opt_sine_weights",
     opt_minus_sin |-> "opt_minus_sine_weights"]

\* MeasPulse(length, waveform, integration_weights, digital_marker)
MeasPulse(kw) ==
    IF ~(DOMAIN kw \subseteq {"length", "waveform", "integration_weights",
                              "digital_marker"})
    THEN Raised("TypeError")
    ELSE Built([class |-> "MeasPulse",
                length |-> GetOr(kw, "length", 1000),
                waveform |-> GetOr(kw, "waveform", "readout_wf"),
                integration_weights |->
                    GetOr(kw, "integration_weights", IntegrationWeightMapping),
                digital_marker |-> GetOr(kw, "digital_marker", "None")])

\* ControlPulse.to_dict, MeasPulse.to_dict
Pulse_to_dict(p) ==
    IF p.class = "ControlPulse"
    THEN [type |-> "control", length |-> p.length, waveform |-> p.waveform,
          digital_marker |-> p.digital_marker]
    ELSE [type |-> "measure", length |-> p.length, waveform |-> p.waveform,
          integration_weights |-> p.integration_weights,
          digital_marker |-> p.digital_marker]

ControlPulse_from_dict(d) ==
    ControlPulse([length |-> GetOr(d, "length", 0),
                  waveform |-> GetOr(d, "waveform", "zero_wf"),
                  digital_marker |-> GetOr(d, "digital_marker", "OFF")])

\* MeasPulse.from_dict: the mapping takes the keys it has attributes for,
\* and the constructor is called with the keyword waveforms
MeasPulse_from_dict(d) ==
    LET vals == GetOr(d, "integration_weights", EmptyDict)
        iw == [k \in DOMAIN IntegrationWeightMapping |->
                 GetOr(vals, k, IntegrationWeightMapping[k])]
    IN MeasPulse([length |-> GetOr(d, "length", 1000),
                  waveforms |-> GetOr(d, "waveforms", "readout_wf"),
                  integration_weights |-> iw,
                  digital_marker |-> GetOr(d, "digital_marker", "None")])

\* PulseConfig.from_dict, one entry
Pulse_from_dict(pd) ==
    LET ptype == GetOr(pd, "type", "None")
    IN IF ptype = "control" THEN ControlPulse_from_dict(pd)
       ELSE IF ptype \in {"measure", "measurement"} THEN MeasPulse_from_dict(pd)
       ELSE ControlPulse_from_dict(pd)

\* the to_dict and the from_dict of a container (PulseConfig,
\* AnalogWaveformConfig, DigitalWaveformConfig, IntegrationWeights,
\* ElementConfig) go through its entries; the first exception of an entry
\* propagates
Each_to_dict(objs, entry(_)) == [n \in DOMAIN objs |-> entry(objs[n])]
Each_from_dict(d, entry(_)) ==
    IF \E n \in DOMAIN d : entry(d[n]).exc # "ok"
    THEN Raised((entry(d[CHOOSE n \in DOMAIN d : entry(d[n]).exc # "ok"])).exc)
    ELSE Built([n \in DOMAIN d |-> entry(d[n]).obj])


\* AnalogWaveformConfig.add_waveform: a list gives an ArbitraryWaveform, a
\* number an AnalogWaveform.  A sample argument is a number (thousandths of
\* a volt) or a list of numbers
Number(x) == [k |-> "float", v |-> x]
SampleList(xs) == [k |-> "list", v |-> xs]
IsSampleList(sample) == sample.k = "list"
Waveform(sample) ==
    IF IsSampleList(sample)
    THEN [class |-> "ArbitraryWaveform", samples |-> sample]
    ELSE [class |-> "AnalogWaveform", sample |-> sample]

\* AnalogWaveform.to_dict, ArbitraryWaveform.to_dict
Waveform_to_dict(w) ==
    IF w.class = "ArbitraryWaveform" THEN [samples |-> w.samples]
    ELSE [sample |-> w.sample]

\* AnalogWaveformConfig.from_dict builds every entry with
\* AnalogWaveform.from_dict
AnalogWaveform_from_dict(d) ==
    Built([class |-> "AnalogWaveform", sample |-> GetOr(d, "sample", Number(0))])


\* DigitalWaveform
DigitalWaveform_to_dict(w) == [state |-> w.state, length |-> w.length]
DigitalWaveform_from_dict(d) ==
    Built([state |-> GetOr(d, "state", 0), length |-> GetOr(d, "length", 0)])

\* IntegrationWeight
IntegrationWeight_to_dict(w) ==
    [length |-> w.length, real_weight |-> w.real_weight,
     imag_weight |-> w.imag_weight]
IntegrationWeight_from_dict(d) ==
    Built([length |-> GetOr(d, "length", 0),
           real_weight |-> GetOr(d, "real_weight", 1),
           imag_weight |-> GetOr(d, "imag_weight", 0)])

\* Element, with its digital inputs
digitalElementConfig_to_dict(c) ==
    [port |-> c.port, delay |-> c.delay, buffer |-> c.buffer]
digitalElementConfig_from_dict(d) ==
    [port |-> GetOr(d, "port", <<"con1", 1, 1>>), delay |-> GetOr(d, "delay", 0),
     buffer |-> GetOr(d, "buffer", 0)]
Element_to_dict(e) ==
    [name |-> e.name, frequency |-> e.frequency,
     analog_input |-> e.analog_input, analog_output |-> e.analog_output,
     digital_inputs |-> [n \in DOMAIN e.digital_inputs |->
                            digitalElementConfig_to_dict(e.digital_inputs[n])],
     operations |-> e.operations, time_of_flight |-> e.time_of_flight,
     sticky |-> e.sticky]
Element_from_dict(d) ==
    LET di == GetOr(d, "digital_inputs", EmptyDict)
    IN Built([name |-> GetOr(d, "name", ""),
              frequency |-> GetOr(d, "frequency", 0),
              analog_input |-> GetOr(d, "analog_input", <<"con1", 1, 1>>),
              analog_output |-> GetOr(d, "analog_output", <<"con1", 1, 1>>),
              digital_inputs |->
                  [n \in DOMAIN di |-> digitalElementConfig_from_dict(di[n])],
              operations |-> GetOr(d, "operations", EmptyDict),
              time_of_flight |-> GetOr(d, "time_of_flight", 0),
              sticky |-> GetOr(d, "sticky", FALSE)])

\* an integer key of a dict, the string json writes for it, and int(key)
IntKey(n) == [k |-> "int", v |-> n]
StrKey(n) == [k |-> "str", v |-> DigitsOf(n)]
PyInt(key) == IF key.k = "int" THEN key.v ELSE ToInt(key.v)

\* ControllerConfig with its front-end modules; a module's ports are kept
\* as the set of configured analog output ports, each with the default
\* AnalogOutput
FEModuleConfig_to_dict(m) ==
    [slot |-> m.slot, type |-> m.fem_type,
     analog_outputs |-> [p \in {IntKey(n) : n \in m.analog_outputs} |->
                            [offset |-> 0]]]
FEModuleConfig_from_dict(d) ==
    [slot |-> GetOr(d, "slot", 1), fem_type |-> GetOr(d, "type", "LF"),
     analog_outputs |-> {PyInt(p) :
                            p \in DOMAIN GetOr(d, "analog_outputs", EmptyDict)}]
ControllerConfig_to_dict(c) ==
    [model |-> c.model, controller_name |-> c.controller_name,
     modules |-> [s \in {IntKey(n) : n \in DOMAIN c.modules} |->
                    FEModuleConfig_to_dict(c.modules[s.v])]]
\* int(slot) for every key of "modules"
ControllerConfig_from_dict(d) ==
    LET md == GetOr(d, "modules", EmptyDict)
    IN Built([model |-> GetOr(d, "model", "opx1000"),
              controller_name |-> GetOr(d, "controller_name", "con1"),
              modules |-> [s \in {PyInt(k) : k \in DOMAIN md} |->
                             FEModuleConfig_from_dict(
                                 md[CHOOSE k \in DOMAIN md : PyInt(k) = s])]])

\* OPXConfig()
OPXConfig ==
    [qop_ip |-> "192.168.88.253", cluster |-> "lex",
     controllers |-> [model |-> "opx1000", controller_name |-> "con1",
                      modules |-> EmptyDict],
     elements |-> EmptyDict, pulses |-> EmptyDict, waveforms |-> EmptyDict,
     digital_waveforms |-> EmptyDict, integration_weights |-> EmptyDict]

\* OPXConfig.to_dict
OPXConfig_to_dict(c) ==
    [qop_ip |-> c.qop_ip, cluster |-> c.cluster,
     controllers |-> ControllerConfig_to_dict(c.controllers),
     elements |-> Each_to_dict(c.elements, Element_to_dict),
     pulses |-> Each_to_dict(c.pulses, Pulse_to_dict),
     waveforms |-> Each_to_dict(c.waveforms, Waveform_to_dict),
     digital_waveforms |->
         Each_to_dict(c.digital_waveforms, DigitalWaveform_to_dict),
     integration_weights |->
         Each_to_dict(c.integration_weights, IntegrationWeight_to_dict)]

\* OPXConfig.from_dict: the parts are rebuilt in the order controllers,
\* elements, pulses, waveforms, digital_waveforms, integration_weights
OPXConfig_from_dict(d) ==
    LET parts == <<ControllerConfig_from_dict(GetOr(d, "controllers", EmptyDict)),
                   Each_from_dict(GetOr(d, "elements", EmptyDict),
                                  Element_from_dict),
                   Each_from_dict(GetOr(d, "pulses", EmptyDict), Pulse_from_dict),
                   Each_from_dict(GetOr(d, "waveforms", EmptyDict),
                                  AnalogWaveform_from_dict),
                   Each_from_dict(GetOr(d, "digital_waveforms", EmptyDict),
                                  DigitalWaveform_from_dict),
                   Each_from_dict(GetOr(d, "integration_weights", EmptyDict),
                                  IntegrationWeight_from_dict)>>
        bad == {i \in 1..6 : parts[i].exc # "ok"}
    IN IF bad # {}
       THEN Raised(parts[CHOOSE i \in bad : \A j \in bad : i <= j].exc)
       ELSE Built([qop_ip |-> GetOr(d, "qop_ip", "192.168.88.253"),
                   cluster |-> GetOr(d, "cluster", "lex"),
                   controllers |-> parts[1].obj, elements |-> parts[2].obj,
                   pulses |-> parts[3].obj, waveforms |-> parts[4].obj,
                   digital_waveforms |-> parts[5].obj,
                   integration_weights |-> parts[6].obj])

\* json.dump followed by json.load: the integer keys of a dict come back as
\* strings of digits (a tuple comes back as a list; both are sequences here)
JsonKeys(d) == [k \in {StrKey(key.v) : key \in DOMAIN d} |->
                  d[CHOOSE key \in DOMAIN d : StrKey(key.v) = k]]
Json(d) ==
    [d EXCEPT !.controllers.modules =
        LET md == d.controllers.modules
        IN JsonKeys([s \in DOMAIN md |->
                       [md[s] EXCEPT !.analog_outputs = JsonKeys(@)]])]

\* the configuration object and the most recent call on it
NoOPXConfig ==
    [cfg |-> OPXConfig,
     call |-> [op |-> "", exc |-> "", before |-> EmptyDict, loaded |-> EmptyDict]]

\* the object after __init__
Init ==
    /\ cls \in Classes
    /\ commands = <<>>
    /\ var_vec = NoneV
    /\ use_fixed = FALSE
    /\ last = NoCall
    /\ live = TRUE
    /\ settings = Construct(BaseSettings, TRUE).settings
    /\ attrs = Construct(BaseSettings, TRUE).attrs
    /\ start_with_wait = TRUE
    /\ low = NoLowering
    /\ lowered = NoLowered
    /\ run = NoRun
    /\ es = NoSettingsObject
    /\ saver = NoDataSaver
    /\ opx = NoOPXConfig

Apply(o, call) ==
    /\ cls' = cls
    /\ commands' = o.commands
    /\ var_vec' = o.var_vec
    /\ use_fixed' = o.use_fixed
    /\ last' = call
    /\ UNCHANGED lowvars
    /\ UNCHANGED othervars

AddPulseCall(name, element, phase, amplitude, length) ==
    /\ Len(commands) < MaxCmds
    /\ LET o == IF cls = "Experiment1D"
                THEN AddPulse1D(commands, var_vec, use_fixed, name, element,
                                phase, amplitude, length)
                ELSE AddPulse(commands, var_vec, use_fixed, name, element,
                              phase, amplitude, length)
       IN Apply(o, Call("add_pulse", name, element, phase, amplitude, length,
                        Absent, Absent, o))

AddDelayCall(duration) ==
    /\ Len(commands) < MaxCmds
    /\ LET o == IF cls = "Experiment1D"
                THEN AddDelay1D(commands, var_vec, use_fixed, duration)
                ELSE AddDelay(commands, var_vec, use_fixed, duration)
       IN Apply(o, Call("add_delay", "", "", Absent, Absent, Absent, duration,
                        Absent, o))

AddAlignCall(elements) ==
    /\ Len(commands) < MaxCmds
    /\ LET o == AddAlign(commands, var_vec, use_fixed, elements)
       IN Apply(o, Call("add_align", "", "", Absent, Absent, Absent, Absent,
                        elements, o))

\* a direct call of update_loop(c); the argument is recorded as the amplitude
\* (Experiment1D has no update_loop)
UpdateLoopCall(c) ==
    /\ cls = "Experiment2D"
    /\ LET r == UpdateLoop(var_vec, c)
           o == Outcome(r.exc, r.msg, c, r.ret, commands, r.var_vec, use_fixed)
       IN Apply(o, Call("update_loop", "", "", Absent, c, Absent, Absent,
                        Absent, o))

Next ==
    \/ \E c \in PulseCalls :
           AddPulseCall(c[1][1], c[1][2], c[2][1], c[2][2], c[2][3])
    \/ \E d \in ScalarDurations \cup NsVecs : AddDelayCall(d)
    \/ \E e \in AlignArgs : AddAlignCall(e)
    \/ \E c \in AmpVecs : UpdateLoopCall(c)

Spec == Init /\ [][Next]_vars

\* update_loop alone, on every pair of vectors over LoopVals
NextLoop == \E c \in LoopVecs : UpdateLoopCall(c)

InitLoop == Init /\ cls = "Experiment2D"

SpecLoop == InitLoop /\ [][NextLoop]_vars

\* -------------------------------------------------------------- lowering
\* A QUA statement as create_experiment emits it, in emission order:
\*   op     "align", "play", "wait", "measure", "save", "frame", and "for" /
\*          "end" around the body of a for_ loop
\*   el     the element ("" when the call names none)
\*   name   the operation played or measured, the variable saved or looped
\*   n      the cycles of a wait; the first value of a loop variable
\*   lim, step   a loop runs while its variable is below lim, adding step
\*   val    the frame rotation or the amplitude factor
\*   part   the call of create_experiment that emitted it: "start", "drive",
\*          "command", "excite", "safe", "prescan", "readout", "measure",
\*          "blank", "reset", "record", and "loop" for the for_ statements
Stmt(op, el, name, n, lim, step, val) ==
    [op |-> op, el |-> el, name |-> name, n |-> n, lim |-> lim,
     step |-> step, val |-> val, part |-> ""]

\* the statements stmts, emitted by the call `part`
Tagged(stmts, part) == [i \in 1..Len(stmts) |-> [stmts[i] EXCEPT !.part = part]]

AlignAll == Stmt("align", "", "", 0, 0, 0, NoneV)
AlignOn(els) == Stmt("align", "", "", 0, 0, 0, els)
Play(name, el, a) == Stmt("play", el, name, 0, 0, 0, a)
Wait(n, el) == Stmt("wait", el, "", n, 0, 0, NoneV)
Measure(name, el) == Stmt("measure", el, name, 0, 0, 0, NoneV)
Save(var) == Stmt("save", "", var, 0, 0, 0, NoneV)
FrameRotation(turns, el) == Stmt("frame", el, "", 0, 0, 0, turns)
For(var, first, lim, step) ==
    [Stmt("for", "", var, first, lim, step, NoneV) EXCEPT !.part = "loop"]
EndFor(var) == [Stmt("end", "", var, 0, 0, 0, NoneV) EXCEPT !.part = "loop"]

\* (faulty variant: the amplifier is switched on without the switching time)
drive_mode_no_settle(switch, amplifier) ==
    << AlignAll,
       Play("voltage_off", switch, NoneV),
       AlignAll,
       Play("voltage_on", amplifier, NoneV),
       AlignAll,
       Wait(AMPLIFIER_UNBLANKING_TIME, ""),
       AlignAll >>

\* macros.drive_mode
drive_mode(switch, amplifier) ==
    << AlignAll,
       Play("voltage_off", switch, NoneV),
       AlignAll,
       Wait(RX_SWITCH_DELAY, ""),
       Play("voltage_on", amplifier, NoneV),
       AlignAll,
       Wait(AMPLIFIER_UNBLANKING_TIME, ""),
       AlignAll >>

\* macros.readout_mode
readout_mode(switch, amplifier) ==
    << AlignAll,
       Play("voltage_off", amplifier, NoneV),
       AlignAll,
       Wait(RX_SWITCH_DELAY, ""),
       Play("voltage_on", switch, NoneV),
       AlignAll,
       Wait(AMPLIFIER_BLANKING_TIME, ""),
       AlignAll >>

\* macros.safe_mode
safe_mode(switch, amplifier) ==
    << AlignAll,
       Play("voltage_off", switch, NoneV),
       Play("voltage_off", amplifier, NoneV),
       AlignAll,
       Wait(RX_SWITCH_DELAY, ""),
       AlignAll >>

\* the outcome of translating commands: the exception ("ok" when none) and
\* the statements emitted
Emitted(exc, msg, stmts) == [exc |-> exc, msg |-> msg, stmts |-> stmts]

\* -x for a scalar value
Neg(x) == Num(0 - x.n, x.d)

\* Experiment.translate_command(command), called with `extra` positional
\* arguments after the command: its signature takes none
translate_command(command, extra) ==
    IF extra # 0
    THEN Emitted("TypeError",
                 "translate_command() takes 2 positional arguments", <<>>)
    ELSE IF command.type = "pulse"
    THEN IF command.phase = Absent
         THEN Emitted("KeyError", "phase", <<>>)
         ELSE IF command.amplitude = Absent
         THEN Emitted("KeyError", "amplitude",
                      << FrameRotation(Num(command.phase.n, command.phase.d * 360),
                                       command.element) >>)
         ELSE Emitted("ok", "",
                << FrameRotation(Num(command.phase.n, command.phase.d * 360),
                                 command.element),
                   Play(command.name, command.element, command.amplitude),
                   FrameRotation(Neg(Num(command.phase.n, command.phase.d * 360)),
                                 command.element) >>)
    ELSE IF command.type = "delay"
    THEN IF command.duration = Absent
         THEN Emitted("KeyError", "duration", <<>>)
         ELSE Emitted("ok", "", << Wait(command.duration.n, "") >>)
    ELSE IF command.type = "align"
    THEN Emitted("ok", "",
                 << IF command.elements = NoneV THEN AlignAll
                    ELSE AlignOn(command.elements) >>)
    ELSE Emitted("ValueError", "Unknown command type", <<>>)

\* Experiment1D.translate_command(command)
translate_command_1d(command) ==
    IF command.type = "pulse"
    THEN Emitted("ok", "",
            << FrameRotation(Num(command.phase.n, command.phase.d * 360),
                             command.element),
               Play(command.name, command.element, command.amplitude),
               FrameRotation(Neg(Num(command.phase.n, command.phase.d * 360)),
                             command.element) >>)
    ELSE IF command.type = "delay"
    THEN IF command.duration.k = "vec"
         THEN Emitted("TypeError", "wait() on a numpy array", <<>>)
         ELSE Emitted("ok", "", << Wait(command.duration.n, "") >>)
    ELSE IF command.type = "align"
    THEN Emitted("ok", "",
                 << IF command.elements = NoneV THEN AlignAll
                    ELSE AlignOn(command.elements) >>)
    ELSE Emitted("ValueError", "Unknown command type", <<>>)

\* `for command in self._commands: self.translate_command(...)`: the
\* statements up to the first exception
RECURSIVE TranslateAll(_, _, _)
TranslateAll(cmds, klass, done) ==
    IF cmds = <<>> THEN Emitted("ok", "", done)
    ELSE LET r == IF klass = "Experiment1D"
                  THEN translate_command_1d(Head(cmds))
                  ELSE translate_command(Head(cmds), 2)
         IN IF r.exc # "ok"
            THEN Emitted(r.exc, r.msg, done \o Tagged(r.stmts, "command"))
            ELSE TranslateAll(Tail(cmds), klass,
                              done \o Tagged(r.stmts, "command"))

\* (faulty variant: the helper's loop starts without its initial wait)
MeasureLoopsTogether(a) ==
    << For("t1", 0, a.measure_sequence_len, 2) >>
    \o Tagged(<< Measure("no_pulse_readout", probe_key),
                 Save("I1"),
                 Save("Q1"),
                 Wait(a.loop_wait_cycles, probe_key) >>, "measure")
    \o << EndFor("t1") >>
    \o << For("t2", 1, a.measure_sequence_len, 2) >>
    \o Tagged(<< Measure("no_pulse_readout", helper_key),
                 Save("I2"),
                 Save("Q2"),
                 Wait(a.loop_wait_cycles, helper_key) >>, "measure")
    \o << EndFor("t2") >>

\* (faulty variant: the helper's loop counts from 0 like the primary one)
MeasureLoopsSameStart(a) ==
    << For("t1", 0, a.measure_sequence_len, 2) >>
    \o Tagged(<< Measure("no_pulse_readout", probe_key),
                 Save("I1"),
                 Save("Q1"),
                 Wait(a.loop_wait_cycles, probe_key) >>, "measure")
    \o << EndFor("t1") >>
    \o Tagged(<< Wait(a.loop_wait_cycles, helper_key) >>, "measure")
    \o << For("t2", 0, a.measure_sequence_len, 2) >>
    \o Tagged(<< Measure("no_pulse_readout", helper_key),
                 Save("I2"),
                 Save("Q2"),
                 Wait(a.loop_wait_cycles, helper_key) >>, "measure")
    \o << EndFor("t2") >>

\* the two measurement loops of create_experiment
MeasureLoops(a) ==
    << For("t1", 0, a.measure_sequence_len, 2) >>
    \o Tagged(<< Measure("no_pulse_readout", probe_key),
                 Save("I1"),
                 Save("Q1"),
                 Wait(a.loop_wait_cycles, probe_key) >>, "measure")
    \o << EndFor("t1") >>
    \o Tagged(<< Wait(a.loop_wait_cycles, helper_key) >>, "measure")
    \o << For("t2", 1, a.measure_sequence_len, 2) >>
    \o Tagged(<< Measure("no_pulse_readout", helper_key),
                 Save("I2"),
                 Save("Q2"),
                 Wait(a.loop_wait_cycles, helper_key) >>, "measure")
    \o << EndFor("t2") >>

\* the outcome of create_experiment: the exception ("ok" when none), the
\* statements emitted into the program, and whether a program was returned
Lowering(exc, msg, emitted) ==
    [exc |-> exc, msg |-> msg, emitted |-> emitted, returned |-> exc = "ok"]

NoVectorMsg ==
    "Experiment2D requires variable vectors. Use Experiment1D, or similar, instead."

\* Experiment2D.validate_experiment
validate_experiment(vv) == IF vv = NoneV THEN NoVectorMsg ELSE ""

\* the end of the sweep loop and of the averaging loop of
\* Experiment2D.create_experiment
Tail2D(a) ==
    Tagged(safe_mode(rx_switch_key, amplifier_key), "blank")
    \o Tagged(<< Wait(a.wait_between_scans, probe_key) >>, "reset")
    \o << EndFor("var") >>
    \o Tagged(<< Save("n") >>, "record")
    \o << EndFor("n") >>

\* Experiment2D.create_experiment; the sweep loop of from_array runs its
\* body once for each entry of var_vec, in order
create_experiment(cmds, vv, a, sww) ==
    IF validate_experiment(vv) # ""
    THEN Lowering("ValueError", validate_experiment(vv), <<>>)
    ELSE LET head == (IF sww
                      THEN Tagged(<< Wait(a.wait_between_scans, probe_key) >>,
                                  "start")
                      ELSE <<>>)
                     \o << For("n", 0, a.n_avg, 1),
                           For("var", 1, Len(vv.v) + 1, 1) >>
                     \o Tagged(drive_mode(rx_switch_key, amplifier_key), "drive")
             t == TranslateAll(cmds, "Experiment2D", <<>>)
         IN IF t.exc # "ok"
            THEN Lowering(t.exc, t.msg, head \o t.stmts)
            ELSE Lowering("ok", "",
                     head \o t.stmts
                     \o Tagged(safe_mode(rx_switch_key, amplifier_key), "safe")
                     \o Tagged(<< Wait(a.pre_scan_delay, "") >>, "prescan")
                     \o Tagged(readout_mode(rx_switch_key, amplifier_key),
                               "readout")
                     \o MeasureLoops(a)
                     \o Tail2D(a))

\* the stream each saved QUA variable goes to, and the stream processing of
\* Experiment2D.create_experiment: the buffer dimensions, innermost first,
\* in front of the average
StreamOf(var) ==
    IF var \in {"I1", "I2"} THEN "I_st" ELSE IF var \in {"Q1", "Q2"} THEN "Q_st"
    ELSE "n_st"
stream_processing(vv, a) ==
    [st \in {"I_st", "Q_st"} |->
        [buffer |-> << a.measure_sequence_len, Len(vv.v) >>, average |-> TRUE]]

\* Experiment1D.create_experiment: self.readout is not an attribute of the
\* class, so `wait(self.readout)` raises
create_experiment_1d(cmds, a) ==
    LET head == Tagged(<< Wait(a.wait_between_scans, probe_key) >>, "start")
                \o << For("n", 0, a.n_avg, 1) >>
                \o Tagged(drive_mode(rx_switch_key, amplifier_key), "drive")
        t == TranslateAll(cmds, "Experiment1D", <<>>)
    IN IF t.exc # "ok"
       THEN Lowering(t.exc, t.msg, head \o t.stmts)
       ELSE Lowering("AttributeError",
                     "'Experiment1D' object has no attribute 'readout'",
                     head \o t.stmts
                     \o Tagged(<< Play(pi_half_pulse, probe_key, NoneV) >>,
                               "excite")
                     \o Tagged(safe_mode(rx_switch_key, amplifier_key), "safe"))

NoCommandsMsg == "No commands have been added to the experiment."

\* Experiment.execute_experiment / simulate_experiment up to the point where
\* the program is handed to the Quantum Machine
execute_experiment(cmds, vv, a, sww) ==
    IF Len(cmds) = 0
    THEN Lowering("ValueError", NoCommandsMsg, <<>>)
    ELSE create_experiment(cmds, vv, a, sww)

\* Experiment1D.execute_experiment / simulate_experiment: self.commands is
\* not an attribute of the class
execute_experiment_1d(cmds, a) ==
    Lowering("AttributeError",
             "'Experiment1D' object has no attribute 'commands'", <<>>)

\* ------------------------------------------------------------- execution
\* The statements of a program run in emission order.  Each element has its
\* own clock: a play, measure or wait on an element advances that element
\* only; align() brings all elements to the latest clock; a wait that names
\* no element is the delay the macros' docstrings count ("730 clock cycles
\* of wait time") and advances every element.  Loops cost no time.
Max(S) == CHOOSE x \in S : \A y \in S : y =< x

\* the length in cycles of the pulse behind operation `name` in the config
\* of cfg_from_settings
PulseCycles(name, s) ==
    IF name \in {"voltage_on", "voltage_off"} THEN 40 \div 4
    ELSE IF name \in {"readout", "no_pulse_readout"} THEN s.dwell_time \div 4
    ELSE IF name = "pi" THEN (2 * s.pulse_length) \div 4
    ELSE s.pulse_length \div 4

\* the `for` statement with the loop variable of the statement at i, and
\* the `end` statement of the loop
LoopHead(prog, i) ==
    CHOOSE j \in 1..Len(prog) : prog[j].op = "for" /\ prog[j].name = prog[i].name
LoopEnd(prog, i) ==
    CHOOSE j \in 1..Len(prog) : prog[j].op = "end" /\ prog[j].name = prog[i].name

\* the run r after the statement at r.pc of prog, on settings s
Exec(r, prog, s) ==
    LET st == prog[r.pc]
        now == Max({r.clock[e] : e \in DOMAIN r.clock})
        \* entering the safe macro behind the drive and the commands; entering
        \* the drive macro of the next sweep point
        r1 == IF st.part = "safe" /\ r.part # "safe"
              THEN [r EXCEPT !.seqEndAt = now, !.waited = 0]
              ELSE IF st.part = "drive" /\ r.part # "drive"
              THEN [r EXCEPT !.probeWin = <<>>, !.helperWin = <<>>]
              ELSE r
        r2 == [r1 EXCEPT !.part = st.part, !.pc = r.pc + 1]
    IN CASE st.op = "align" /\ st.val = NoneV ->
              [r2 EXCEPT !.clock = [e \in DOMAIN r.clock |-> now]]
         [] st.op = "align" /\ st.val # NoneV ->
              LET els == {st.val.v[i] : i \in 1..Len(st.val.v)}
                  t == Max({r.clock[e] : e \in els} \cup {0})
              IN [r2 EXCEPT !.clock = [e \in DOMAIN r.clock |->
                                         IF e \in els THEN t ELSE r.clock[e]]]
         [] st.op = "play" ->
              LET r3 == [r2 EXCEPT !.clock[st.el] = @ + PulseCycles(st.name, s)]
                  level == IF st.name = "voltage_on" THEN "on" ELSE "off"
              IN IF st.el = rx_switch_key
                 THEN [r3 EXCEPT !.sw = level, !.swAt = r.clock[st.el]]
                 ELSE IF st.el = amplifier_key
                 THEN [r3 EXCEPT !.amp = level, !.ampAt = r.clock[st.el]]
                 ELSE r3
         [] st.op = "wait" /\ st.el = "" ->
              [r2 EXCEPT !.clock = [e \in DOMAIN r.clock |-> r.clock[e] + st.n],
                         !.waited = @ + st.n]
         [] st.op = "wait" /\ st.el # "" ->
              [r2 EXCEPT !.clock[st.el] = @ + st.n]
         [] st.op = "measure" ->
              LET w == << r.clock[st.el],
                          r.clock[st.el] + PulseCycles(st.name, s) >>
                  r3 == [r2 EXCEPT !.clock[st.el] = w[2]]
              IN IF st.el = probe_key
                 THEN [r3 EXCEPT !.probeWin = Append(@, w)]
                 ELSE [r3 EXCEPT !.helperWin = Append(@, w)]
         [] st.op = "for" ->
              [r2 EXCEPT !.loop[st.name] = st.n,
                         !.pc = IF st.n < st.lim THEN r.pc + 1
                                ELSE LoopEnd(prog, r.pc) + 1]
         [] st.op = "end" ->
              LET h == LoopHead(prog, r.pc)
                  x == r.loop[st.name] + prog[h].step
              IN [r2 EXCEPT !.loop[st.name] = x,
                            !.pc = IF x < prog[h].lim THEN h + 1 ELSE r.pc + 1]
         [] st.op = "save" ->
              [r2 EXCEPT !.saved[st.name] = @ + 1]
         [] OTHER -> r2

\* -------------------------------------------------- lowering, as actions
\* settings handed to the constructor: pre-scan delays of 15, 16, 20 (from
\* 5000 and from 5003 ns) and 3770 cycles; one and two averages; 0, 1, 3 and
\* 4 readout windows
ReadoutDelays == {4980, 4984}
SettingsSet ==
    {Settings(1, rd, 64, 64) : rd \in ReadoutDelays}
    \cup {Settings(2, 20000, 64, 192), Settings(2, 5003, 80, 330),
          Settings(1, 5000, 64, 0)}

\* no object yet: the constructor is about to be called on some settings
InitLower ==
    /\ cls \in Classes
    /\ commands = <<>>
    /\ var_vec = NoneV
    /\ use_fixed = FALSE
    /\ last = NoCall
    /\ live = FALSE
    /\ settings \in SettingsSet
    /\ attrs = NoAttrs
    /\ start_with_wait = TRUE
    /\ low = NoLowering
    /\ lowered = NoLowered
    /\ run = NoRun
    /\ es = NoSettingsObject
    /\ saver = NoDataSaver
    /\ opx = NoOPXConfig

\* what a lowering reads of the object: self._commands, self.var_vec,
\* self.start_with_wait and the attributes the constructor derived from the
\* settings
Read ==
    [commands |-> commands, var_vec |-> var_vec,
     start_with_wait |-> start_with_wait, attrs |-> attrs]

\* history of create_experiment: what the call behind `low` read, and
\* whether the create_experiment before it had read the same
Lowered == [read |-> Read, again |-> lowered.read = Read]

\* a method call that takes no recorded argument, and its outcome
Method(op, exc, msg) ==
    Call(op, "", "", Absent, Absent, Absent, Absent, Absent,
         Outcome(exc, msg, NoneV, NoneV, commands, var_vec, use_fixed))

\* Experiment2D(settings, config) / Experiment1D(settings, config); the
\* call is recorded with the config argument as its name
ConstructCall(configGiven) ==
    /\ ~live
    /\ last.op = "init"
    /\ LET c == Construct(settings, configGiven)
       IN /\ live' = (c.exc = "ok")
          /\ settings' = c.settings
          /\ attrs' = c.attrs
          /\ last' = [Method("__init__", c.exc, c.msg)
                      EXCEPT !.name = IF configGiven THEN "config" ELSE "None"]
    /\ UNCHANGED <<cls, commands, var_vec, use_fixed, start_with_wait, low,
                   lowered, run>>
    /\ UNCHANGED othervars

\* the object exists and no program is running
Ready == live /\ run.pc = 0

\* Experiment.remove_initial_delay(remove)
RemoveInitialDelayCall(remove) ==
    /\ Ready
    /\ cls = "Experiment2D"
    /\ start_with_wait' = ~remove
    /\ last' = Method("remove_initial_delay", "ok", "")
    /\ UNCHANGED <<cls, commands, var_vec, use_fixed, live, settings, attrs,
                   low, lowered, run>>
    /\ UNCHANGED othervars

\* Experiment2D.validate_experiment()
ValidateCall ==
    /\ Ready
    /\ cls = "Experiment2D"
    /\ last' = Method("validate_experiment",
                      IF validate_experiment(var_vec) = "" THEN "ok"
                      ELSE "ValueError",
                      validate_experiment(var_vec))
    /\ UNCHANGED <<cls, commands, var_vec, use_fixed, live, settings, attrs,
                   start_with_wait, low, lowered, run>>
    /\ UNCHANGED othervars

\* (faulty variant: the lowering consumes the command list)
CreateCallConsuming ==
    /\ Ready
    /\ LET l == IF cls = "Experiment1D"
                THEN create_experiment_1d(commands, attrs)
                ELSE create_experiment(commands, var_vec, attrs, start_with_wait)
       IN /\ low' = l
          /\ last' = Method("create_experiment", l.exc, l.msg)
    /\ lowered' = Lowered
    /\ commands' = <<>>
    /\ UNCHANGED <<cls, var_vec, use_fixed, live, settings, attrs,
                   start_with_wait, run>>
    /\ UNCHANGED othervars

\* create_experiment()
CreateCall ==
    /\ Ready
    /\ LET l == IF cls = "Experiment1D"
                THEN create_experiment_1d(commands, attrs)
                ELSE create_experiment(commands, var_vec, attrs, start_with_wait)
       IN /\ low' = l
          /\ last' = Method("create_experiment", l.exc, l.msg)
    /\ lowered' = Lowered
    /\ UNCHANGED <<cls, commands, var_vec, use_fixed, live, settings, attrs,
                   start_with_wait, run>>
    /\ UNCHANGED othervars

\* execute_experiment() and simulate_experiment(): the program, when one is
\* built, starts to run
ExecuteCall(op) ==
    /\ Ready
    /\ LET l == IF cls = "Experiment1D"
                THEN execute_experiment_1d(commands, attrs)
                ELSE execute_experiment(commands, var_vec, attrs, start_with_wait)
       IN /\ low' = l
          /\ last' = Method(op, l.exc, l.msg)
          /\ run' = IF l.returned THEN [NoRun EXCEPT !.pc = 1] ELSE run
    /\ lowered' = IF cls = "Experiment2D" /\ Len(commands) > 0
                  THEN Lowered ELSE NoLowered
    /\ UNCHANGED <<cls, commands, var_vec, use_fixed, live, settings, attrs,
                   start_with_wait>>
    /\ UNCHANGED othervars

\* qm.execute(expt) on the program the last create_experiment returned
StartRun ==
    /\ Ready
    /\ low.returned
    /\ last.op = "create_experiment"
    /\ run' = [NoRun EXCEPT !.pc = 1]
    /\ last' = Method("qm.execute", "ok", "")
    /\ UNCHANGED <<cls, commands, var_vec, use_fixed, live, settings, attrs,
                   start_with_wait, low, lowered>>
    /\ UNCHANGED othervars

\* the Quantum Machine runs one statement; behind the last one the job is
\* over
RunStep ==
    /\ run.pc > 0
    /\ LET r == Exec(run, low.emitted, settings)
       IN run' = IF r.pc > Len(low.emitted) THEN NoRun ELSE r
    /\ UNCHANGED <<cls, commands, var_vec, use_fixed, last, live, settings,
                   attrs, start_with_wait, low, lowered>>
    /\ UNCHANGED othervars

\* the commands and vectors of the lowering specification
LowerDelays == {Scalar(64), Scalar(8), Array(<<64, 128>>)}
LowerVecs == {Array(<<1, 2>>), Array(<<1, 2, 3>>)}

NextLower ==
    \/ \E g \in BOOLEAN : ConstructCall(g)
    \/ Ready /\ AddPulseCall("pi_half", "resonator", Scalar(90),
                             Array(<<1, 2>>), NoneV)
    \/ Ready /\ \E d \in LowerDelays : AddDelayCall(d)
    \/ Ready /\ AddAlignCall(NoneV)
    \/ Ready /\ \E c \in LowerVecs : UpdateLoopCall(c)
    \/ \E b \in BOOLEAN : RemoveInitialDelayCall(b)
    \/ ValidateCall
    \/ CreateCall
    \/ \E op \in {"execute_experiment", "simulate_experiment"} : ExecuteCall(op)
    \/ StartRun
    \/ RunStep

SpecLower == InitLower /\ [][NextLower]_vars

\* ------------------------------------------------------------ properties
\* helpers of the properties below
SweepOps == {"add_pulse", "add_delay", "update_loop"}
ArgFields == {"phase", "amplitude", "length", "duration"}

\* the arguments of call c that are vectors
VecFields(c) == {f \in ArgFields : c[f].k = "vec"}

\* a call with exactly one vector argument, and that vector as given
OneVector(c) == c.op \in SweepOps /\ Cardinality(VecFields(c)) = 1
RawOf(c) == c[CHOOSE f \in VecFields(c) : TRUE].v

\* add_pulse names an element of the configuration and one of its operations
NamesDefined(c) ==
    c.op = "add_pulse" => (c.element \in ConfigElements /\ c.name \in Operations(c.element))

IsZero(w) == \A i \in 1..Len(w) : w[i] = 0

\* w and v are linearly dependent (every 2x2 minor vanishes)
Parallel(w, v) ==
    /\ Len(w) = Len(v)
    /\ \A i, j \in 1..Len(w) : w[i] * v[j] = w[j] * v[i]

\* w = k * v for some k > 0, and for some k < 0
PosMultiple(w, v) ==
    /\ Parallel(w, v)
    /\ \A i \in 1..Len(w) : w[i] * v[i] >= 0
    /\ \E i \in 1..Len(w) : w[i] * v[i] > 0

NegMultiple(w, v) ==
    /\ Parallel(w, v)
    /\ \A i \in 1..Len(w) : w[i] * v[i] =< 0
    /\ \E i \in 1..Len(w) : w[i] * v[i] < 0

\* the values the one vector of call c stands for, in hardware units up to
\* a positive factor: degrees mod 360, the amplitude, whole 4 ns cycles
Normalized(c) ==
    LET f == CHOOSE g \in VecFields(c) : TRUE
        w == c[f].v
    IN [i \in 1..Len(w) |->
           IF f = "phase" THEN w[i] % 360
           ELSE IF f = "amplitude" THEN w[i]
           ELSE w[i] \div 4]

\* the call before this step registered its vector as the sweep vector of an
\* experiment that had none
JustRegistered ==
    /\ cls = "Experiment2D"
    /\ OneVector(last)
    /\ last.exc = "ok"
    /\ var_vec = last.cand

\* C1: on an experiment with no sweep vector, a command with the vector v
\* followed by a command with the vector k*v, k > 0, is accepted and
\* appended, whichever of phase, amplitude, length or duration carries each
\* vector.  (Stated for a first command that was accepted.)
C1_ProportionalSweepAccepted ==
    [][(/\ JustRegistered
        /\ last.op \in {"add_pulse", "add_delay"}
        /\ last'.op \in {"add_pulse", "add_delay"}
        /\ OneVector(last')
        /\ NamesDefined(last')
        /\ PosMultiple(RawOf(last'), RawOf(last)))
       => (last'.exc = "ok" /\ Len(commands') = Len(commands) + 1)]_vars

C3_ReturnsScale ==
    [][/\ (var_vec = NoneV /\ ~IsZero(last'.amplitude.v))
          => (last'.exc = "ok" /\ last'.ret = Num(1, 1))
       /\ \A i \in 1..VecLen :
            (/\ var_vec # NoneV
             /\ PosMultiple(last'.amplitude.v, var_vec.v)
             /\ var_vec.v[i] # 0)
            => (/\ last'.exc = "ok"
                /\ last'.ret = Num(last'.amplitude.v[i], var_vec.v[i]))]_vars

\* C4: after v is registered, update_loop(-k*v), k > 0, raises the
\* ValueError "Inconsistent loop variables." and nothing else.
C4_NegativeScaleRejected ==
    [][(var_vec # NoneV /\ NegMultiple(last'.amplitude.v, var_vec.v))
       => (last'.exc = "ValueError" /\ last'.msg = InconsistentMsg)]_vars

\* C5: update_loop of an all-zero vector raises ValueError, as the first
\* vector and after another one is registered, and leaves var_vec as it was.
C5_AllZeroRejected ==
    [][IsZero(last'.amplitude.v)
       => (/\ last'.exc = "ValueError"
           /\ last'.msg = AllZeroMsg
           /\ var_vec' = var_vec)]_vars

\* C5 witness: an all-zero vector has just been rejected on an experiment
\* that has a registered vector
C5_Witness ==
    /\ last.op = "update_loop"
    /\ IsZero(last.amplitude.v)
    /\ last.exc = "ValueError"
    /\ var_vec # NoneV

\* the stored vector vv holds the values of the vector argument f of call c
\* after the normalisation of that field (vv.v[i]/vv.d each)
HoldsNormalized(vv, c, f) ==
    LET w == c[f].v
    IN /\ Len(vv.v) = Len(w)
       /\ \A i \in 1..Len(w) :
            IF f = "phase" THEN vv.v[i] * 360 = (w[i] % 360) * vv.d
            ELSE IF f = "amplitude" THEN vv.v[i] = w[i] * vv.d
            ELSE vv.v[i] = (w[i] \div 4) * vv.d

\* C6: over any sequence of calls the stored sweep vector is absent or is
\* the normalized vector of the first accepted vector-valued call: it is set
\* once, from that call, and no later call replaces or rescales it.
C6_SweepVectorSetOnce ==
    [][/\ var_vec # NoneV => var_vec' = var_vec
       /\ (var_vec = NoneV /\ var_vec' # NoneV)
          => (/\ last'.exc = "ok"
              /\ \E f \in VecFields(last') : HoldsNormalized(var_vec', last', f))]_vars

\* C6 witness: a vector proportional to the stored one, and different from
\* it, has just been accepted by add_pulse or add_delay
C6_Witness ==
    /\ last.op \in {"add_pulse", "add_delay"}
    /\ last.exc = "ok"
    /\ last.cand # NoneV
    /\ var_vec # NoneV
    /\ last.cand # var_vec

\* C7: an add_pulse or add_delay that fails the sweep check leaves the
\* command list, the stored vector and the fixed-point flag as they were.
C7_FailedSweepChangesNothing ==
    [][(/\ last'.op \in {"add_pulse", "add_delay"}
        /\ last'.cand # NoneV
        /\ last'.exc # "ok")
       => (/\ commands' = commands
           /\ var_vec' = var_vec
           /\ use_fixed' = use_fixed)]_vars

\* C7 witness: a swept add_delay (which would clear the flag) has just failed
\* the sweep check on an experiment with a command, a stored vector and the
\* flag set
C7_Witness ==
    /\ last.op = "add_delay"
    /\ last.cand # NoneV
    /\ last.exc # "ok"
    /\ Len(commands) > 0
    /\ var_vec # NoneV
    /\ use_fixed

\* every name in the list given to add_align is an element of the config
AllDefined(elements) ==
    \A i \in 1..Len(elements.v) : elements.v[i] \in ConfigElements

\* C8: names are validated at add time: add_pulse with an undefined element
\* or operation and add_align with an undefined element fail and append
\* nothing; add_pulse with scalar arguments on defined names, and add_align
\* with defined names or no list, are accepted and append one command.
C8_NamesValidatedAtAdd ==
    [][cls = "Experiment2D" =>
       /\ (last'.op = "add_pulse" /\ ~NamesDefined(last'))
          => (last'.exc # "ok" /\ commands' = commands)
       /\ (last'.op = "add_align" /\ ~AllDefined(last'.elements))
          => (last'.exc # "ok" /\ commands' = commands)
       /\ (\/ (/\ last'.op = "add_pulse" /\ NamesDefined(last')
               /\ VecFields(last') = {})
           \/ (last'.op = "add_align" /\ AllDefined(last'.elements)))
          => (last'.exc = "ok" /\ Len(commands') = Len(commands) + 1)]_vars

\* C9: add_pulse with more than one of phase, amplitude and length given as
\* a vector fails and appends no command.
C9_TwoVectorsRejected ==
    [][(/\ cls = "Experiment2D"
        /\ last'.op = "add_pulse"
        /\ Cardinality(VecFields(last')) > 1)
       => (last'.exc # "ok" /\ commands' = commands)]_vars

\* the command at the end of cmds is the one call c describes
IsCommandOf(cmd, c) ==
    \/ c.op = "add_pulse" /\ cmd.type = "pulse" /\ cmd.name = c.name
       /\ cmd.element = c.element
    \/ c.op = "add_delay" /\ cmd.type = "delay"
    \/ c.op = "add_align" /\ cmd.type = "align" /\ cmd.elements = c.elements

\* C10: the command list is append-only: a successful add_* call appends its
\* one command at the end and leaves the earlier ones as they were, and any
\* other call leaves the list unchanged.
C10_AppendOnly ==
    [][IF last'.op \in {"add_pulse", "add_delay", "add_align"} /\ last'.exc = "ok"
       THEN /\ Len(commands') = Len(commands) + 1
            /\ SubSeq(commands', 1, Len(commands)) = commands
            /\ IsCommandOf(commands'[Len(commands')], last')
       ELSE commands' = commands]_vars

\* C10 witness: a delay has just been appended behind a pulse
C10_Witness ==
    /\ Len(commands) = 2
    /\ commands[1].type = "pulse"
    /\ commands[2].type = "delay"
    /\ last.op = "add_delay"
    /\ last.exc = "ok"

\* ----------------------------------------- properties of the lowering
LoweringOps == {"create_experiment", "execute_experiment", "simulate_experiment"}

\* some command of cmds holds a vector
HasVector(cmds) ==
    \E i \in 1..Len(cmds) :
        \E f \in {"phase", "amplitude", "length", "duration"} : cmds[i][f].k = "vec"

\* C11: validation matches sweep presence to the declared shape: without a
\* sweep vector validation and lowering fail with ValueError on an
\* Experiment2D, and with one validation passes; on an Experiment1D a
\* non-empty sequence without vectors is lowered without error and one with
\* a vector fails; no add_* call makes this check.
C11_ShapeValidated ==
    [][/\ (/\ cls = "Experiment2D" /\ var_vec = NoneV
           /\ last'.op \in LoweringOps \cup {"validate_experiment"})
          => last'.exc = "ValueError"
       /\ (/\ cls = "Experiment2D" /\ var_vec # NoneV
           /\ last'.op = "validate_experiment")
          => last'.exc = "ok"
       /\ (/\ cls = "Experiment1D" /\ Len(commands) > 0
           /\ last'.op \in LoweringOps)
          => (last'.exc = "ok" <=> ~HasVector(commands))
       /\ (last'.op \in {"add_pulse", "add_delay", "add_align"})
          => last'.msg # NoVectorMsg]_vars

C13_EmptySequenceRejected ==
    [][(last'.op \in LoweringOps /\ Len(commands) = 0)
       => (/\ last'.exc = "ValueError"
           /\ low'.emitted = <<>>
           /\ ~low'.returned
           /\ run' = run)]_vars

\* the calls of create_experiment in the order in which their statements
\* were emitted, each named once per stretch, the for_ statements left out
RECURSIVE Parts(_, _)
Parts(prog, acc) ==
    IF prog = <<>> THEN acc
    ELSE IF \/ Head(prog).part = "loop"
            \/ (acc # <<>> /\ acc[Len(acc)] = Head(prog).part)
    THEN Parts(Tail(prog), acc)
    ELSE Parts(Tail(prog), Append(acc, Head(prog).part))

\* an experiment with commands that is valid for its shape
Lowerable ==
    /\ Len(commands) > 0
    /\ \/ cls = "Experiment2D" /\ var_vec # NoneV
       \/ cls = "Experiment1D" /\ ~HasVector(commands)

IterationOrder ==
    << "drive", "command", "safe", "prescan", "readout", "measure", "blank",
       "reset", "record" >>

\* C14: create_experiment on an experiment with commands that is valid for
\* its shape returns a program whose iterations run, in this order: drive
\* macro, the user commands, safe macro, pre-scan wait, readout macro, the
\* measurement loops, safe macro, thermal-reset wait, and then the save of
\* the iteration counter n.
C14_IterationOrder ==
    [][(last'.op = "create_experiment" /\ Lowerable)
       => (/\ low'.returned
           /\ Parts(low'.emitted, <<>>)
                \in {IterationOrder, << "start" >> \o IterationOrder})]_vars

\* the QUA variable of the sweep loop, as the value of a statement
QuaVar == [k |-> "var", n |-> 0, d |-> 1, v |-> <<>>]

\* the statement that carries out a command (its frame rotations aside) and
\* the kind of statement a command asks for
IsCommandStmt(st) == st.part = "command" /\ st.op # "frame"
Kind(cmd) ==
    IF cmd.type = "pulse" THEN "play"
    ELSE IF cmd.type = "delay" THEN "wait" ELSE "align"

\* C15: for a command list the add_* calls accepted (with a sweep vector),
\* create_experiment succeeds and emits one statement per command, in
\* insertion order, with the sweep variable in the place of a swept
\* amplitude or delay duration.
C15_CommandsReplayed ==
    [][(/\ last'.op = "create_experiment"
        /\ cls = "Experiment2D"
        /\ var_vec # NoneV
        /\ Len(commands) > 0)
       => LET em == SelectSeq(low'.emitted, IsCommandStmt)
          IN /\ low'.returned
             /\ Len(em) = Len(commands)
             /\ \A i \in 1..Len(commands) :
                  /\ em[i].op = Kind(commands[i])
                  /\ (\/ commands[i].type = "pulse" /\ commands[i].amplitude = Absent
                      \/ commands[i].type = "delay" /\ commands[i].duration = Absent)
                     => em[i].val = QuaVar]_vars

\* ------------------------------------- properties of a running program
\* the statement the running program executes next
Running == run.pc > 0
NextStmt == low.emitted[run.pc]

\* C16: while a lowered program runs, the amplifier is switched on only when
\* the receive switch has been open (off) for at least RX_SWITCH_DELAY
\* cycles, the receive switch is closed (on) only when the amplifier has been
\* off for at least RX_SWITCH_DELAY cycles, and the amplifier is off at
\* every statement of the measurement loops.
C16_Interlock ==
    Running =>
        /\ (/\ NextStmt.op = "play" /\ NextStmt.el = amplifier_key
            /\ NextStmt.name = "voltage_on")
           => (/\ run.sw = "off"
               /\ run.clock[amplifier_key] - run.swAt >= RX_SWITCH_DELAY)
        /\ (/\ NextStmt.op = "play" /\ NextStmt.el = rx_switch_key
            /\ NextStmt.name = "voltage_on")
           => (/\ run.amp = "off"
               /\ run.clock[rx_switch_key] - run.ampAt >= RX_SWITCH_DELAY)
        /\ (NextStmt.part = "measure" \/ run.part = "measure") => run.amp = "off"

\* C16 witness: in the second sweep point of the second averaging iteration
\* the switch has been closed, with the amplifier off, and a measurement is
\* about to start
C16_Witness ==
    /\ Running
    /\ NextStmt.op = "measure"
    /\ run.loop["n"] = 1
    /\ run.loop["var"] = 2
    /\ run.sw = "on"
    /\ run.amp = "off"

\* the start of the first measurement of the sweep point: both measuring
\* elements left the readout macro aligned at this time
FirstSample == run.probeWin[1][1]

\* C17: in a running program the i-th measurement of the primary element is
\* sub-window t = 2(i-1) and occupies [T0 + 2(i-1)W, T0 + (2i-1)W), the i-th
\* measurement of the helper element is sub-window t = 2i-1 and occupies
\* [T0 + (2i-1)W, T0 + 2iW), where W = dwell_time/4 cycles and T0 is the start
\* of the primary's first measurement; no window of one element overlaps a
\* window of the other, and behind the loops the primary has measured the
\* even and the helper the odd t below measure_sequence_len.
C17_Interleaved ==
    Running =>
        LET W == attrs.loop_wait_cycles
            P == run.probeWin
            H == run.helperWin
            msl == attrs.measure_sequence_len
        IN /\ H # <<>> => P # <<>>
           /\ \A i \in 1..Len(P) :
                 P[i] = << FirstSample + 2 * (i - 1) * W,
                           FirstSample + (2 * i - 1) * W >>
           /\ \A i \in 1..Len(H) :
                 H[i] = << FirstSample + (2 * i - 1) * W,
                           FirstSample + 2 * i * W >>
           /\ \A i \in 1..Len(P) : \A j \in 1..Len(H) :
                 P[i][2] =< H[j][1] \/ H[j][2] =< P[i][1]
           /\ (NextStmt.op = "measure" /\ NextStmt.el = probe_key)
              => run.loop["t1"] = 2 * Len(P)
           /\ (NextStmt.op = "measure" /\ NextStmt.el = helper_key)
              => run.loop["t2"] = 2 * Len(H) + 1
           /\ run.part = "blank"
              => /\ Len(P) = (msl + 1) \div 2
                 /\ Len(H) = msl \div 2

\* C17 witness: behind the measurement loops of a sweep point with four
\* sub-windows, both elements have measured two windows each
C17_Witness ==
    /\ Running
    /\ run.part = "blank"
    /\ attrs.measure_sequence_len = 4
    /\ Len(run.probeWin) = 2
    /\ Len(run.helperWin) = 2
    /\ run.helperWin[1][1] = run.probeWin[1][2]
    /\ run.probeWin[2][1] = run.helperWin[1][2]

MinWaitCycles == 16

\* a delay argument below the shortest wait: a scalar, or some entry of a
\* vector, of fewer than 4 * MinWaitCycles nanoseconds
BelowMinWait(duration) ==
    \/ duration.k = "num" /\ duration.n < 4 * MinWaitCycles * duration.d
    \/ duration.k = "vec"
       /\ \E i \in 1..Len(duration.v) : duration.v[i] < 4 * MinWaitCycles

\* C19: add_delay with a duration below 64 ns (a scalar, or an entry of a
\* swept vector) is rejected, and no wait of fewer than 16 cycles is among
\* the statements a lowering emits.
C19_ShortDelayRejected ==
    [][/\ (last'.op = "add_delay" /\ BelowMinWait(last'.duration))
          => last'.exc # "ok"
       /\ last'.op = "create_experiment"
          => \A i \in 1..Len(low'.emitted) :
                low'.emitted[i].op = "wait" => low'.emitted[i].n >= MinWaitCycles]_vars

\* C20: when the first measurement of a sweep point starts, the waits of the
\* safe macro, the pre-scan wait and the waits of the readout macro add up
\* to readout_delay // 4 cycles, and at least that many cycles have passed
\* on the measuring element since the drive and the commands ended.
C20_ReadoutDelayKept ==
    (/\ Running
     /\ NextStmt.op = "measure"
     /\ NextStmt.el = probe_key
     /\ run.probeWin = <<>>)
    => /\ run.waited = settings.readout_delay \div 4
       /\ run.clock[probe_key] - run.seqEndAt >= settings.readout_delay \div 4

\* ------------------------------------- ExperimentSettings, as actions
\* no experiment object takes part
NoExperiment ==
    /\ cls = "Experiment2D"
    /\ commands = <<>>
    /\ var_vec = NoneV
    /\ use_fixed = FALSE
    /\ last = NoCall
    /\ live = FALSE
    /\ settings = BaseSettings
    /\ attrs = NoAttrs
    /\ start_with_wait = TRUE
    /\ low = NoLowering
    /\ lowered = NoLowered
    /\ run = NoRun

InitSettings ==
    /\ NoExperiment
    /\ es = NoSettingsObject
    /\ saver = NoDataSaver
    /\ opx = NoOPXConfig

\* keyword arguments: a sequence of <<name, value>> pairs with distinct names
Names(kw) == {kw[i][1] : i \in 1..Len(kw)}
ValueOf(kw, name) == kw[CHOOSE i \in 1..Len(kw) : kw[i][1] = name][2]
AsDict(kw) == [n \in Names(kw) |-> ValueOf(kw, n)]

\* ExperimentSettings(**kw): the generated __init__ stores its arguments;
\* the class has no __post_init__
NewSettings(kw) ==
    IF Names(kw) \subseteq FieldNames
    THEN [exc |-> "ok", msg |-> "",
          obj |-> SettingsObject([n \in FieldNames |->
                                     IF n \in Names(kw) THEN ValueOf(kw, n)
                                     ELSE DefaultFields[n]])]
    ELSE [exc |-> "TypeError", msg |-> "unexpected keyword argument",
          obj |-> SettingsObject(DefaultFields)]

\* s = ExperimentSettings(**kw)
SettingsNewCall(kw) ==
    LET c == NewSettings(kw)
    IN es' = [live |-> IF c.exc = "ok" THEN TRUE ELSE es.live,
              obj |-> IF c.exc = "ok" THEN c.obj ELSE es.obj,
              callbacks |-> IF c.exc = "ok" THEN <<>> ELSE es.callbacks,
              call |-> SettingsCall("__init__", kw, c.exc, c.msg, <<>>, <<>>,
                                    es.obj, es.callbacks)]

\* s = ExperimentSettings.from_dict(data); keys that are no fields are
\* dropped
SettingsFromDictCall(kw) ==
    LET d == AsDict(kw)
        c == from_dict([n \in DOMAIN d \cap FieldNames |-> d[n]])
    IN es' = [live |-> IF c.exc = "ok" THEN TRUE ELSE es.live,
              obj |-> IF c.exc = "ok" THEN c.obj ELSE es.obj,
              callbacks |-> IF c.exc = "ok" THEN <<>> ELSE es.callbacks,
              call |-> SettingsCall("from_dict", kw, c.exc, c.msg, <<>>, <<>>,
                                    es.obj, es.callbacks)]

\* s = s.copy()
SettingsCopyCall ==
    /\ es.live
    /\ LET c == from_dict(to_dict(es.obj))
       IN es' = [live |-> TRUE,
                 obj |-> IF c.exc = "ok" THEN c.obj ELSE es.obj,
                 callbacks |-> IF c.exc = "ok" THEN <<>> ELSE es.callbacks,
                 call |-> SettingsCall("copy", <<>>, c.exc, c.msg, <<>>, <<>>,
                                       es.obj, es.callbacks)]

\* s.update(**kw), the notification of the callbacks included
SettingsUpdateCall(kw) ==
    /\ es.live
    /\ LET u == update(es.obj, kw)
           n == IF u.notify THEN Notify(es.callbacks, 1, es.callbacks, <<>>)
                ELSE [exc |-> "ok", callbacks |-> es.callbacks, ran |-> <<>>]
       IN es' = [live |-> TRUE, obj |-> u.obj, callbacks |-> n.callbacks,
                 call |-> SettingsCall("update", kw,
                                       IF u.exc = "ok" THEN n.exc ELSE u.exc,
                                       u.msg, u.ret, n.ran, es.obj, es.callbacks)]

NotCallable == "none"

\* s.register_update_callback(fn)
SettingsRegisterCall(fn) ==
    /\ es.live
    /\ es' = [es EXCEPT
              !.callbacks = IF fn = NotCallable \/ \E i \in 1..Len(@) : @[i] = fn
                            THEN @ ELSE Append(@, fn),
              !.call = SettingsCall("register_update_callback", <<fn>>,
                                    IF fn = NotCallable THEN "TypeError" ELSE "ok",
                                    IF fn = NotCallable
                                    THEN "callback must be callable" ELSE "",
                                    <<>>, <<>>, es.obj, es.callbacks)]

\* s.unregister_update_callback(fn)
SettingsUnregisterCall(fn) ==
    /\ es.live
    /\ es' = [es EXCEPT
              !.callbacks = Remove(@, fn),
              !.call = SettingsCall("unregister_update_callback", <<fn>>, "ok", "",
                                    <<>>, <<>>, es.obj, es.callbacks)]

\* the keywords of the constructor and from_dict calls, and of the updates
NewKw ==
    {<<>>, << <<"n_avg", 0>> >>, << <<"rotation_angle", 450>> >>,
     << <<"readout_delay", 4984>> >>, << <<"excitation_amp", 50>> >>}
UpdateKw ==
    {<<>>, << <<"n_avg", 8>> >>, << <<"n_avg", 4>> >>, << <<"n_avg", 0>> >>,
     << <<"rotation_angle", 450>> >>, << <<"excitation_amp", 50>> >>,
     << <<"validate", 1>> >>, << <<"n_avg", 8>>, <<"bogus", 1>> >>,
     << <<"pulse_amplitude", 600>> >>, << <<"readout_delay", 20000>> >>,
     << <<"n_avg", 8>>, <<"pulse_length", 2000>> >>}

NextSettings ==
    \/ \E kw \in NewKw : SettingsNewCall(kw) /\ UNCHANGED <<expvars, saver, opx>>
    \/ \E kw \in NewKw : SettingsFromDictCall(kw) /\ UNCHANGED <<expvars, saver, opx>>
    \/ SettingsCopyCall /\ UNCHANGED <<expvars, saver, opx>>
    \/ \E kw \in UpdateKw : SettingsUpdateCall(kw) /\ UNCHANGED <<expvars, saver, opx>>
    \/ \E fn \in Callbacks \cup {NotCallable} :
           SettingsRegisterCall(fn) /\ UNCHANGED <<expvars, saver, opx>>
    \/ \E fn \in Callbacks : SettingsUnregisterCall(fn) /\ UNCHANGED <<expvars, saver, opx>>

SpecSettings == InitSettings /\ [][NextSettings]_vars

\* ------------------------------------------- properties of the settings
\* the names update can be asked to set, and the value an object holds
SettingNames == FieldNames \cup {"excitation_amp"}
Get(o, name) == IF name = "excitation_amp" THEN o.excitation_amp ELSE o.f[name]

\* the value a setting holds once validated
Canon(name, v) == IF name = "rotation_angle" THEN v % 360 ELSE v

\* C21: after update(**kwargs) raised, the object is the one the call found
\* and no callback ran; after it returned, every requested setting holds the
\* requested (validated) value, every other setting holds its old value
\* (validated or as it was), and the returned dictionary maps exactly the
\* settings whose value differs from the old one to their new values.
C21_UpdateAtomic ==
    es.call.op = "update" =>
        LET c == es.call
        IN /\ c.exc # "ok" => (es.obj = c.before /\ c.ran = <<>>)
           /\ c.exc = "ok" =>
                /\ \A n \in Names(c.arg) :
                     Get(es.obj, n) = Canon(n, ValueOf(c.arg, n))
                /\ \A n \in SettingNames \ Names(c.arg) :
                     Get(es.obj, n) \in {Get(c.before, n),
                                         Canon(n, Get(c.before, n))}
                /\ c.ret = [n \in {m \in SettingNames :
                                     Get(c.before, m) # Get(es.obj, m)}
                            |-> Get(es.obj, n)]

\* the entries of a sequence
Range(q) == {q[i] : i \in 1..Len(q)}

\* C22: the callback list never holds a callback twice; an update that
\* changed at least one field has called every callback that was registered
\* when it was made exactly once, whatever the callbacks did; an update that
\* changed none, or raised, has called none; and the exception of an update,
\* if any, is one of update's own.
C22_CallbacksNotified ==
    /\ Cardinality(Range(es.callbacks)) = Len(es.callbacks)
    /\ es.call.op = "update" =>
         LET c == es.call
         IN /\ (c.exc = "ok" /\ DOMAIN c.ret # {})
               => (/\ Len(c.ran) = Len(c.registered)
                   /\ Range(c.ran) = Range(c.registered))
            /\ (c.exc # "ok" \/ DOMAIN c.ret = {}) => c.ran = <<>>
            /\ c.exc \in {"ok", "AttributeError", "ValueError", "TypeError"}

\* C22 witness: an update that changed a field found the raising callback
\* registered ahead of the one that unregisters "plain" and of "plain", and
\* called all three
C22_Witness ==
    /\ es.call.op = "update"
    /\ es.call.exc = "ok"
    /\ DOMAIN es.call.ret # {}
    /\ es.call.registered = <<"raiser", "remover", "plain">>
    /\ es.call.ran = <<"raiser", "remover", "plain">>
    /\ es.callbacks = <<"raiser", "remover">>

\* C23: every settings object that exists passes ExperimentSettings.validate:
\* n_avg >= 1, pulse_length >= 64 ns, |pulse_amplitude| =< 0.5,
\* readout_delay >= 5 us and 0 =< center_freq - offset_freq < 750 MHz.
C23_SettingsValid ==
    es.live => Validate(es.obj.f) = ""

\* ----------------------------------------------- DataSaver, as actions
\* most save_experiment calls made on the root data folder
MaxSaves == 4

\* the prefixes of the saves: two valid ones, the empty one, one with a path
\* separator
Prefixes == {"exp", "run", "", "a/b"}

\* the root data folder at the start: empty, or left with the folder of the
\* 9998th save of "exp"
InitSaver ==
    /\ NoExperiment
    /\ es = NoSettingsObject
    /\ saver \in {[NoDataSaver EXCEPT !.dirs = d] :
                    d \in {{}, {<<"exp", Format(9998, CounterWidth)>>}}}
    /\ opx = NoOPXConfig

\* saver.save_experiment(prefix, config, settings, commands, data)
SaveExperimentCall(prefix, writable) ==
    /\ saver.saves < MaxSaves
    /\ LET r == save_experiment(saver.dirs, prefix, writable)
       IN saver' = [dirs |-> r.dirs, saves |-> saver.saves + 1,
                    call |-> [op |-> "save_experiment", prefix |-> prefix,
                              writable |-> writable, exc |-> r.exc,
                              ret |-> r.ret, before |-> saver.dirs]]
    /\ UNCHANGED <<expvars, es, opx>>

\* the user removes a folder from the root data folder
FolderRemoved(name) ==
    /\ name \in saver.dirs
    /\ saver' = [dirs |-> saver.dirs \ {name}, saves |-> saver.saves,
                 call |-> [NoDataSaver.call EXCEPT !.op = "rmtree", !.ret = name,
                                                   !.before = saver.dirs]]
    /\ UNCHANGED <<expvars, es, opx>>

NextSaver ==
    \/ \E p \in Prefixes : \E w \in BOOLEAN : SaveExperimentCall(p, w)
    \/ \E name \in saver.dirs : FolderRemoved(name)

SpecSaver == InitSaver /\ [][NextSaver]_vars

\* -------------------------------------------- properties of the DataSaver
\* the counters of the folders of a prefix
Counters(dirs, prefix) == {ToInt(d[2]) : d \in {e \in dirs : e[1] = prefix}}

\* C24: a save_experiment with a valid prefix whose files can be written
\* returns a folder that was not there before and is there now, named by the
\* prefix and a counter of at least CounterWidth digits that is one greater
\* than the largest counter among the folders of the prefix (1 when there is
\* none).
C24_FreshFolder ==
    (/\ saver.call.op = "save_experiment"
     /\ saver.call.prefix \in {"exp", "run"}
     /\ saver.call.writable)
    => LET c == saver.call
           old == Counters(c.before, c.prefix)
       IN /\ c.exc = "ok"
          /\ c.ret \notin c.before
          /\ c.ret \in saver.dirs
          /\ c.ret[1] = c.prefix
          /\ Len(c.ret[2]) >= CounterWidth
          /\ ToInt(c.ret[2]) = IF old = {} THEN 1 ELSE Max(old) + 1

\* ------------------------------------------------------ OPXConfig calls
InitConfig ==
    /\ NoExperiment
    /\ es = NoSettingsObject
    /\ saver = NoDataSaver
    /\ opx = NoOPXConfig

\* the outcome of a call that leaves the configuration c
ConfigCall(op, exc, c) ==
    opx' = [cfg |-> c,
            call |-> [op |-> op, exc |-> exc, before |-> opx.cfg,
                      loaded |-> EmptyDict]]

\* the arguments of the calls
PulseNames == {"pi"}
WaveformNames == {"pi_wf"}
PulseObjects ==
    {ControlPulse([length |-> 1000, waveform |-> "pi_wf"]).obj,
     MeasPulse([length |-> 1000]).obj,
     MeasPulse([length |-> 2000, waveform |-> "pi_wf",
                digital_marker |-> "ON"]).obj}
Samples == {Number(500), SampleList(<<100, 200>>)}
ElementObjects ==
    {[name |-> "resonator", frequency |-> 282, analog_input |-> <<"con1", 1, 1>>,
      analog_output |-> <<"con1", 1, 1>>, digital_inputs |-> di,
      operations |-> ops, time_of_flight |-> 280, sticky |-> FALSE] :
        di \in {EmptyDict,
                [n \in {"marker"} |-> [port |-> <<"con1", 1, 2>>, delay |-> 0,
                                         buffer |-> 0]]},
        ops \in {EmptyDict, [n \in {"pi"} |-> "pi"]}}
Controllers ==
    {[model |-> "opx1000", controller_name |-> "con1", modules |-> m] :
        m \in {EmptyDict,
               [s \in {1} |-> [slot |-> 1, fem_type |-> "LF",
                               analog_outputs |-> {1, 2}]]}}

\* opx = OPXConfig()
OPXConfigCall ==
    /\ opx' = [NoOPXConfig EXCEPT !.call.op = "OPXConfig", !.call.exc = "ok",
                                  !.call.before = opx.cfg]

\* opx.add_controller(controller_config)
ConfigAddControllerCall(c) ==
    ConfigCall("add_controller", "ok", [opx.cfg EXCEPT !.controllers = c])

\* opx.add_element(name, element)
ConfigAddElementCall(name, element) ==
    ConfigCall("add_element", "ok",
               [opx.cfg EXCEPT !.elements = Put(@, name, element)])

\* opx.add_pulse(name, pulse)
ConfigAddPulseCall(name, pulse) ==
    ConfigCall("add_pulse", "ok", [opx.cfg EXCEPT !.pulses = Put(@, name, pulse)])

\* opx.pulses.add_control_pulse(name, length, waveform): the constructor is
\* called with the keyword waveforms
AddControlPulseCall(name, length, waveform) ==
    LET p == ControlPulse([length |-> length, waveforms |-> waveform,
                           digital_marker |-> "OFF"])
    IN ConfigCall("add_control_pulse", p.exc,
                  IF p.exc = "ok"
                  THEN [opx.cfg EXCEPT !.pulses = Put(@, name, p.obj)]
                  ELSE opx.cfg)

\* opx.pulses.add_measurement_pulse(name, length, waveform)
AddMeasurementPulseCall(name, length, waveform) ==
    LET p == MeasPulse([length |-> length, waveforms |-> waveform,
                        integration_weights |-> IntegrationWeightMapping,
                        digital_marker |-> "None"])
    IN ConfigCall("add_measurement_pulse", p.exc,
                  IF p.exc = "ok"
                  THEN [opx.cfg EXCEPT !.pulses = Put(@, name, p.obj)]
                  ELSE opx.cfg)

\* AnalogWaveformConfig.add_waveform(name, sample), called with the keyword
\* arguments kw
AnalogWaveformConfig_add_waveform(wfs, name, kw) ==
    IF ~(DOMAIN kw \subseteq {"sample"}) THEN Raised("TypeError")
    ELSE Built(Put(wfs, name, Waveform(GetOr(kw, "sample", Number(0)))))

\* opx.add_waveform(name, waveform) passes wf_type and sample on
AddWaveformCall(name, waveform) ==
    LET wf_type == IF IsSampleList(waveform) THEN "arbitrary" ELSE "constant"
        r == AnalogWaveformConfig_add_waveform(
                 opx.cfg.waveforms, name,
                 [wf_type |-> wf_type, sample |-> waveform])
    IN ConfigCall("add_waveform", r.exc,
                  IF r.exc = "ok" THEN [opx.cfg EXCEPT !.waveforms = r.obj]
                  ELSE opx.cfg)

\* opx.waveforms.add_waveform(name, sample)
WaveformsAddWaveformCall(name, sample) ==
    LET r == AnalogWaveformConfig_add_waveform(opx.cfg.waveforms, name,
                                               [sample |-> sample])
    IN ConfigCall("waveforms.add_waveform", r.exc,
                  [opx.cfg EXCEPT !.waveforms = r.obj])

\* opx.add_digital_waveform(name, state, length)
AddDigitalWaveformCall(name, state, length) ==
    ConfigCall("add_digital_waveform", "ok",
               [opx.cfg EXCEPT !.digital_waveforms =
                    Put(@, name, [state |-> state, length |-> length])])

\* opx.add_integration_weight(name, length, real_weight, imag_weight)
AddIntegrationWeightCall(name, length, real_weight, imag_weight) ==
    ConfigCall("add_integration_weight", "ok",
               [opx.cfg EXCEPT !.integration_weights =
                    Put(@, name, [length |-> length, real_weight |-> real_weight,
                                  imag_weight |-> imag_weight])])

\* loaded = OPXConfig.from_dict(opx.to_dict()); loaded.to_dict() is recorded
FromDictCall ==
    LET r == OPXConfig_from_dict(OPXConfig_to_dict(opx.cfg))
    IN opx' = [opx EXCEPT !.call =
                 [op |-> "from_dict", exc |-> r.exc, before |-> opx.cfg,
                  loaded |-> IF r.exc = "ok" THEN OPXConfig_to_dict(r.obj)
                             ELSE EmptyDict]]

\* opx.save_to_file(path); loaded = OPXConfig.load_from_file(path)
LoadFromFileCall ==
    LET r == OPXConfig_from_dict(Json(OPXConfig_to_dict(opx.cfg)))
    IN opx' = [opx EXCEPT !.call =
                 [op |-> "load_from_file", exc |-> r.exc, before |-> opx.cfg,
                  loaded |-> IF r.exc = "ok" THEN OPXConfig_to_dict(r.obj)
                             ELSE EmptyDict]]

NextConfig ==
    \/ OPXConfigCall /\ UNCHANGED <<expvars, es, saver>>
    \/ \E c \in Controllers : ConfigAddControllerCall(c) /\ UNCHANGED <<expvars, es, saver>>
    \/ \E e \in ElementObjects :
           ConfigAddElementCall(e.name, e) /\ UNCHANGED <<expvars, es, saver>>
    \/ \E n \in PulseNames : \E p \in PulseObjects :
           ConfigAddPulseCall(n, p) /\ UNCHANGED <<expvars, es, saver>>
    \/ \E n \in PulseNames : \E w \in WaveformNames :
           AddControlPulseCall(n, 1000, w) /\ UNCHANGED <<expvars, es, saver>>
    \/ \E n \in PulseNames : \E w \in WaveformNames :
           AddMeasurementPulseCall(n, 1000, w) /\ UNCHANGED <<expvars, es, saver>>
    \/ \E n \in WaveformNames : \E s \in Samples :
           AddWaveformCall(n, s) /\ UNCHANGED <<expvars, es, saver>>
    \/ \E n \in WaveformNames : \E s \in Samples :
           WaveformsAddWaveformCall(n, s) /\ UNCHANGED <<expvars, es, saver>>
    \/ \E st \in {0, 1} :
           AddDigitalWaveformCall("marker1", st, 100)
           /\ UNCHANGED <<expvars, es, saver>>
    \/ AddIntegrationWeightCall("w1", 1000, 1, 0) /\ UNCHANGED <<expvars, es, saver>>
    \/ FromDictCall /\ UNCHANGED <<expvars, es, saver>>
    \/ LoadFromFileCall /\ UNCHANGED <<expvars, es, saver>>

SpecConfig == InitConfig /\ [][NextConfig]_vars

\* C25: rebuilding a configuration from its own dictionary, directly or
\* through a file, raises nothing and gives a configuration with the same
\* dictionary
C25_RoundTrip ==
    opx.call.op \in {"from_dict", "load_from_file"} =>
        /\ opx.call.exc = "ok"
        /\ opx.call.loaded = OPXConfig_to_dict(opx.cfg)

\* the same for the configurations that hold control pulses, constant
\* waveforms, digital waveforms, integration weights, elements and
\* controller modules only
C25_PlainParts ==
    (/\ opx.call.op \in {"from_dict", "load_from_file"}
     /\ \A n \in DOMAIN opx.cfg.pulses : opx.cfg.pulses[n].class = "ControlPulse"
     /\ \A n \in DOMAIN opx.cfg.waveforms :
            opx.cfg.waveforms[n].class = "AnalogWaveform")
        => /\ opx.call.exc = "ok"
           /\ opx.call.loaded = OPXConfig_to_dict(opx.cfg)

\* ------------------------------------------------------------------ C26
\* the number of values a stream has received in the run
Received(stream) ==
    LET from == {x \in DOMAIN run.saved : StreamOf(x) = stream}
        RECURSIVE Sum(_)
        Sum(S) == IF S = {} THEN 0
                  ELSE LET x == CHOOSE y \in S : TRUE
                       IN run.saved[x] + Sum(S \ {x})
    IN Sum(from)

\* the sweep points whose measurement loops have been passed when the run
\* is behind the loops of the current point
PassesDone == run.loop["n"] * Len(var_vec.v) + run.loop["var"]

\* C26: behind the measurement loops of a sweep point each stream has
\* received measure_sequence_len values for every point passed, the upper
\* half of them from the primary channel and the lower half from the
\* helper; behind an averaging iteration the streams hold a whole number of
\* (sweep length, measure_sequence_len) buffers, one for each iteration
\* counted
C26_StreamCounts ==
    Running =>
        LET L == attrs.measure_sequence_len
            S == Len(var_vec.v)
            size == stream_processing(var_vec, attrs)["I_st"].buffer[1]
                    * stream_processing(var_vec, attrs)["I_st"].buffer[2]
        IN /\ run.part \in {"blank", "reset"} =>
                /\ run.saved["I1"] = PassesDone * ((L + 1) \div 2)
                /\ run.saved["I2"] = PassesDone * (L \div 2)
                /\ run.saved["Q1"] = run.saved["I1"]
                /\ run.saved["Q2"] = run.saved["I2"]
                /\ Received("I_st") = PassesDone * L
                /\ Received("Q_st") = PassesDone * L
           /\ run.part = "record" =>
                /\ run.saved["n"] = run.loop["n"] + 1
                /\ Received("I_st") = run.saved["n"] * S * L
                /\ Received("Q_st") = run.saved["n"] * S * L
                /\ size = S * L
                /\ size > 0 => /\ Received("I_st") % size = 0
                               /\ Received("I_st") \div size = run.saved["n"]
                               /\ Received("Q_st") \div size = run.saved["n"]

\* C26 witness: the last averaging iteration of a run with two averages,
\* three sub-windows and a sweep of more than one point has been recorded
C26_Witness ==
    /\ Running
    /\ run.part = "record"
    /\ attrs.n_avg = 2
    /\ run.saved["n"] = 2
    /\ attrs.measure_sequence_len = 3
    /\ Len(var_vec.v) > 1
    /\ run.saved["I1"] = 2 * Len(var_vec.v) * 2
    /\ run.saved["I2"] = 2 * Len(var_vec.v) * 1

\* ------------------------------------------------------------------ C27
\* an Experiment2D on which only add_pulse, add_delay and add_align are
\* called
InitSweep == Init /\ cls = "Experiment2D"

NextSweep ==
    \/ \E c \in PulseCalls :
           AddPulseCall(c[1][1], c[1][2], c[2][1], c[2][2], c[2][3])
    \/ \E d \in ScalarDurations \cup NsVecs : AddDelayCall(d)
    \/ \E e \in AlignArgs : AddAlignCall(e)

SpecSweep == InitSweep /\ [][NextSweep]_vars

\* `var = declare(fixed)`: the type of the sweep variable of the program of
\* Experiment2D.create_experiment
SweepVarType == "fixed"

\* the argument a stored command was swept over ("" when over none): the
\* key a sweeping branch leaves out of the command
SweptKey(cmd) ==
    IF cmd.type = "pulse" /\ cmd.phase = Absent THEN "phase"
    ELSE IF cmd.type = "pulse" /\ cmd.amplitude = Absent THEN "amplitude"
    ELSE IF cmd.type = "pulse" /\ cmd.length = Absent THEN "length"
    ELSE IF cmd.type = "delay" /\ cmd.duration = Absent THEN "duration"
    ELSE ""

\* the swept argument of the first sweeping command: the one whose vector
\* was registered
Origin(cmds) ==
    LET sweeping == {i \in 1..Len(cmds) : SweptKey(cmds[i]) # ""}
    IN IF sweeping = {} THEN ""
       ELSE SweptKey(cmds[CHOOSE i \in sweeping : \A j \in sweeping : i <= j])

\* C27: with a vector registered, use_fixed holds and the sweep variable is
\* fixed-point when the registered vector came from a phase or amplitude
\* sweep; use_fixed does not hold and the sweep variable is an integer when
\* it came from a length or duration sweep
C27_FlagDescribesVector ==
    var_vec # NoneV =>
        /\ Origin(commands) \in {"phase", "amplitude"}
             => use_fixed /\ SweepVarType = "fixed"
        /\ Origin(commands) \in {"length", "duration"}
             => ~use_fixed /\ SweepVarType = "int"

\* the flag alone
C27_FlagOnly ==
    var_vec # NoneV =>
        use_fixed = (Origin(commands) \in {"phase", "amplitude"})

\* the flag after the sweeping call that registered the vector
C27_FlagAtRegistration ==
    (var_vec # NoneV /\ Cardinality({i \in 1..Len(commands) :
                                       SweptKey(commands[i]) # ""}) = 1)
        => use_fixed = (Origin(commands) \in {"phase", "amplitude"})

\* ------------------------------------------------------------------ C28
\* the vector a call sweeps over, as the caller gave it: nanoseconds for a
\* length or duration sweep, degrees for a phase sweep
NsArg(call) ==
    IF call.op = "add_delay" /\ IsIterable(call.duration) THEN call.duration
    ELSE IF /\ call.op = "add_pulse"
            /\ ~IsIterable(call.phase) /\ ~IsIterable(call.amplitude)
            /\ call.length # NoneV /\ IsIterable(call.length)
    THEN call.length
    ELSE NoneV
PhaseArg(call) ==
    IF call.op = "add_pulse" /\ IsIterable(call.phase) THEN call.phase ELSE NoneV

\* a is a positive scalar multiple of b
PositiveMultiple(a, b) ==
    /\ Len(a.v) = Len(b.v)
    /\ \A i, j \in 1..Len(a.v) : a.v[i] * b.v[j] = a.v[j] * b.v[i]
    /\ \A i \in 1..Len(a.v) : a.v[i] * b.v[i] >= 0
    /\ \E i \in 1..Len(a.v) : a.v[i] * b.v[i] > 0

\* the registered vector is the one the most recent call handed to
\* update_loop, and the next call accepted(x, y) relates the vectors as given
SameResult(x, y) ==
    (last'.exc = "ok") <=> PositiveMultiple(x, y)

\* C28: when a sweeping call follows the sweeping call whose normalized
\* vector is the registered one, and both sweep nanosecond vectors (or both
\* phase vectors), the second is accepted exactly when the vectors as given
\* are positive multiples of each other
C28_SameBeforeAndAfter ==
    [][(/\ last.exc = "ok"
        /\ last.cand # NoneV
        /\ var_vec = last.cand
        /\ last'.cand # NoneV)
       => /\ (NsArg(last) # NoneV /\ NsArg(last') # NoneV)
                => SameResult(NsArg(last'), NsArg(last))
          /\ (PhaseArg(last) # NoneV /\ PhaseArg(last') # NoneV)
                => SameResult(PhaseArg(last'), PhaseArg(last))]_vars

\* the nanosecond half and the phase half on their own
C28_Ns ==
    [][(/\ last.exc = "ok" /\ last.cand # NoneV /\ var_vec = last.cand
        /\ last'.cand # NoneV
        /\ NsArg(last) # NoneV /\ NsArg(last') # NoneV)
       => (PositiveMultiple(NsArg(last'), NsArg(last)) => last'.exc = "ok")]_vars
C28_Phase ==
    [][(/\ last.exc = "ok" /\ last.cand # NoneV /\ var_vec = last.cand
        /\ last'.cand # NoneV
        /\ PhaseArg(last) # NoneV /\ PhaseArg(last') # NoneV)
       => (PositiveMultiple(PhaseArg(last'), PhaseArg(last))
             => last'.exc = "ok")]_vars

\* ------------------------------------------------------------------ C29
\* exp.translate_command(exp._commands[-1]) inside a program: the
\* statements it emits are recorded in low
TranslateCommandCall ==
    /\ Len(commands) > 0
    /\ LET command == commands[Len(commands)]
           r == IF cls = "Experiment1D" THEN translate_command_1d(command)
                ELSE translate_command(command, 0)
       IN /\ low' = [Lowering(r.exc, r.msg, r.stmts) EXCEPT !.returned = FALSE]
          /\ last' = Method("translate_command", r.exc, r.msg)
    /\ UNCHANGED <<cls, commands, var_vec, use_fixed, live, settings, attrs,
                   start_with_wait, lowered, run>>
    /\ UNCHANGED othervars

\* scalar phases in degrees: below, at and above a full turn, and negative
TranslatePhases == {Scalar(p) : p \in {0, 45, 90, 180, 360, 450, -90}}

NextTranslate ==
    \/ \E p \in TranslatePhases : \E t \in ValidTargets :
           AddPulseCall(t[1], t[2], p, Scalar(1), NoneV)
    \/ \E d \in ScalarDurations : AddDelayCall(d)
    \/ TranslateCommandCall

SpecTranslate == Init /\ [][NextTranslate]_vars

\* C29: when the pulse a successful add_pulse call with scalar phase p has
\* just stored is translated, the statements are a frame rotation by
\* (p / 360) mod 1 turns on the element, the play, and the opposite frame
\* rotation
C29_PhaseLowered ==
    [][(/\ last.op = "add_pulse"
        /\ last.exc = "ok"
        /\ last.phase.k = "num"
        /\ last'.op = "translate_command")
       => LET turns == Num(last.phase.n % 360, 360)
          IN /\ low'.exc = "ok"
             /\ Len(low'.emitted) = 3
             /\ low'.emitted[1] = FrameRotation(turns, last.element)
             /\ low'.emitted[2].op = "play"
             /\ low'.emitted[2].name = last.name
             /\ low'.emitted[2].el = last.element
             /\ low'.emitted[3] = FrameRotation(Neg(turns), last.element)]_vars

\* the frame half alone: the rotations a translated pulse emits are on the
\* element of the play between them and cancel
C29_FrameRestored ==
    (last.op = "translate_command" /\ last.exc = "ok" /\ Len(low.emitted) = 3)
        => /\ low.emitted[1].op = "frame" /\ low.emitted[3].op = "frame"
           /\ low.emitted[1].el = low.emitted[2].el
           /\ low.emitted[3].el = low.emitted[2].el
           /\ low.emitted[3].val = Neg(low.emitted[1].val)

\* the rotation that is emitted: the stored turns divided by 360 once more
C29_TurnsDividedAgain ==
    (last.op = "translate_command" /\ last.exc = "ok" /\ Len(low.emitted) = 3)
        => LET stored == commands[Len(commands)].phase
           IN low.emitted[1].val = Num(stored.n, stored.d * 360)

\* ------------------------------------------------------------------ C30
\* the levels of the switch and of the amplifier behind the statements
\* stmts, run from the levels lv: a play of voltage_on on one of the two
\* sticky elements raises its level, any other play on it lowers it
RECURSIVE LevelsAfter(_, _)
LevelsAfter(stmts, lv) ==
    IF stmts = <<>> THEN lv
    ELSE LET st == Head(stmts)
             level == IF st.name = "voltage_on" THEN "on" ELSE "off"
             nxt == IF st.op = "play" /\ st.el = rx_switch_key
                    THEN [lv EXCEPT !.sw = level]
                    ELSE IF st.op = "play" /\ st.el = amplifier_key
                    THEN [lv EXCEPT !.amp = level]
                    ELSE lv
         IN LevelsAfter(Tail(stmts), nxt)

\* the levels the drive macro leaves: switch open, amplifier enabled
DriveLevels ==
    LevelsAfter(drive_mode(rx_switch_key, amplifier_key),
                [sw |-> "unknown", amp |-> "unknown"])

\* C30: the statements a translated user command emits behind the drive
\* macro leave the switch and the amplifier at the levels the macro set, so
\* the amplifier is never enabled with the switch closed
C30_UserCannotSwitch ==
    (last.op = "translate_command" /\ last.exc = "ok")
        => /\ LevelsAfter(low.emitted, DriveLevels) = DriveLevels
           /\ ~(/\ LevelsAfter(low.emitted, DriveLevels).amp = "on"
                /\ LevelsAfter(low.emitted, DriveLevels).sw = "on")

\* the same for the commands on the resonator and the helper, and for
\* delays
C30_ProbeCommandsOnly ==
    (/\ last.op = "translate_command" /\ last.exc = "ok"
     /\ commands[Len(commands)].element \notin {rx_switch_key, amplifier_key})
        => LevelsAfter(low.emitted, DriveLevels) = DriveLevels

\* add_pulse accepts no operation on the switch or the amplifier
C30_SwitchPulsesRejected ==
    (/\ last.op = "add_pulse"
     /\ last.element \in {rx_switch_key, amplifier_key})
        => last.exc # "ok"

====
